---- MODULE Spec2Model ----
(***************************************************************************)
(* Guest-side SQLite bridge of lunatic-diesel: the host-call wrappers of   *)
(* sqlite/host_bindings.rs and the connection, statement cursor and        *)
(* transaction layer of sqlite/diesel_connection.rs, with the rows and     *)
(* fields it yields and the bind collector of sqlite/bind_collector.rs.    *)
(*                                                                         *)
(* The guest is single threaded; every host call is a synchronous round    *)
(* trip.  One action of the model is one public operation of the           *)
(* connection (or one step of a cursor, or one end of a transaction        *)
(* closure).  `trace` holds the host calls (and the guest's buffer         *)
(* reconstructions) the most recent operation made, in order; `host` is    *)
(* what the host and the guest heap look like after all calls so far.      *)
(*                                                                         *)
(* sqlite/stmt.rs (Statement, StatementUse) is not among the sources; its  *)
(* operations are modelled from the specification's statement lifecycle.   *)
(* StatementCache and AnsiTransactionManager belong to the diesel crate;   *)
(* they are modelled as diesel 2.0 documents them.                         *)
(***************************************************************************)
EXTENDS Integers, Sequences, FiniteSets, TLC

\* Bounds of the model.
MaxStmts == 2
MaxPtr == 2
MaxLen == 1
MaxDepth == 2
MaxRows == 2
MaxConn == 2
MaxCols == 2
MaxBinds == 2

VARIABLES conn, cursor, frames, host, trace, ret, panicked,
          opened, row, field, collector

\* opened    : the connections the guest has established, each with the
\*             identifier it stores and the one the host assigned
\* row, field: a SqliteRow a cursor yielded, and what the last get on it gave
\* collector : a SqliteBindCollector, and what the last conversion gave
aux == <<opened, row, field, collector>>

vars == <<conn, cursor, frames, host, trace, ret, panicked, aux>>

(***************************************************************************)
(* Events: one host call, or one unroll_vec of the guest.                  *)
(*   id  : the connection or statement identifier the call carries         *)
(*   arg : SQL text, or the step's outcome                                 *)
(*   key : bind position                                                   *)
(*   out : numeric result (statement id, status, buffer pointer)           *)
(*   len : buffer length                                                   *)
(*   msg : for last_error, the message of the host's report                *)
(* A call that returns a buffer has in arg what the buffer holds: the code *)
(* of an error report, "decodable" for a row or a name list, "undecodable" *)
(* for bytes that do not decode.                                           *)
(***************************************************************************)
\* A tagged value: the variant and its payload, a sequence of words (one
\* for an integer or a double, two for a 64-bit integer, the bytes for a
\* text or a blob, none for Null).
Tagged(tag, v) == [tag |-> tag, v |-> v]
NoValue == Tagged("", <<>>)

Ev(op, id, arg, key, out, len) ==
    [op |-> op, id |-> id, arg |-> arg, key |-> key, out |-> out, len |-> len,
     msg |-> "", value |-> NoValue]

Ptrs == 1..MaxPtr
Lens == 1..MaxLen
StepResults == {"ROW", "DONE", "ERROR"}

BufferOps == {"last_error", "read_row", "column_names"}
StatementOps == {"bind_value", "statement_reset", "sqlite3_step",
                 "read_row", "column_names", "sqlite3_finalize"}

\* The queries the connection's tests run (select of a bound 1, of a literal,
\* of IN over a vector, of IN over a sub-select).
Queries == {"QBind", "QLit", "QInVec", "QSub"}

\* The full select of a table, which a cursor reads row by row.
QAll == "QAll"

sql(q) ==
    CASE q = "QAll" -> "SELECT * FROM t"
      [] q = "QBind" -> "SELECT ?"
      [] q = "QLit" -> "SELECT 1"
      [] q = "QInVec" -> "SELECT ? IN (?, ?, ?)"
      [] q = "QSub" -> "SELECT ? IN (SELECT ?)"

is_safe_to_cache_prepared(q) == q \in {"QBind", "QSub", QAll}

binds(q) ==
    CASE q = QAll -> 0
      [] q = "QBind" -> 1
      [] q = "QLit" -> 0
      [] q = "QInVec" -> 4
      [] q = "QSub" -> 2

\* How many placeholders a statement of this text has.
ParamCount(text) == binds(CHOOSE q \in Queries \cup {QAll} : sql(q) = text)

\* The values a query is run with: two sets of values that serialize, and
\* one whose first value's to_sql fails.
ParamSets == {"A", "B"}
Unserializable == "unserializable"
\* enum InternalSqliteBindValue.
BorrowedString(s) == Tagged("BorrowedString", s)
String(s) == Tagged("String", s)
BorrowedBinary(blob) == Tagged("BorrowedBinary", blob)
Binary(blob) == Tagged("Binary", blob)
I32(int) == Tagged("I32", <<int>>)
I64(int) == Tagged("I64", int)
F64(double) == Tagged("F64", <<double>>)
Null == Tagged("Null", <<>>)

Params(params) ==
    CASE params = "A" -> <<I32(1), I32(2), I32(3), I32(4)>>
      [] params = "B" -> <<I32(5), I32(6), I32(7), I32(8)>>
      [] OTHER -> <<>>

\* Mutant: a 64-bit integer is sent as the 32-bit variant, and owned text as
\* a blob.
BindValue_by_width(tag) ==
    CASE tag = "BorrowedString" -> "Text"
      [] tag \in {"String", "BorrowedBinary", "Binary"} -> "Blob"
      [] tag \in {"I32", "I64"} -> "Int"
      [] tag = "F64" -> "Double"
      [] tag = "Null" -> "Null"

\* The variant of BindValue that to_ffi_struct makes of each variant.
BindValue(tag) ==
    CASE tag \in {"BorrowedString", "String"} -> "Text"
      [] tag \in {"BorrowedBinary", "Binary"} -> "Blob"
      [] tag = "I32" -> "Int"
      [] tag = "I64" -> "Int64"
      [] tag = "F64" -> "Double"
      [] tag = "Null" -> "Null"

\* Mutant: the key is the position counted from 0.
to_ffi_struct_zero_based(idx, src) ==
    [key |-> idx - 1, value |-> Tagged(BindValue(src.tag), src.v)]

\* InternalSqliteBindValue::to_ffi_struct: BindPair(BindKey::Numeric(idx),
\* the wire value of the same kind with the same payload).
to_ffi_struct(idx, src) ==
    [key |-> idx, value |-> Tagged(BindValue(src.tag), src.v)]

(***************************************************************************)
(* Errors and results.                                                     *)
(***************************************************************************)
\* kind is the variant of diesel::result::Error; a DatabaseError carries its
\* DatabaseErrorKind and message.  src names the statement that failed.
Err(kind, src) == [kind |-> kind, src |-> src, dbkind |-> "", message |-> ""]
NoErr == Err("none", "")
DatabaseError(dbkind, message, src) ==
    [kind |-> "DatabaseError", src |-> src, dbkind |-> dbkind,
     message |-> message]

\* What the last operation returned to its caller: for a transaction method
\* also the nesting depth at entry, whether the closure ran, and what the
\* closure returned.
Result(ok) == IF ok THEN "Ok" ELSE "Err"

Ret(op, q, res, err, entryDepth, ranClosure, closure) ==
    [op |-> op, q |-> q, params |-> "", res |-> res, err |-> err,
     entryDepth |-> entryDepth, ranClosure |-> ranClosure,
     closure |-> closure, first |-> FALSE]

(***************************************************************************)
(* The host and the guest heap, as the calls change them.                  *)
(***************************************************************************)
NewStmt(text) ==
    [sql |-> text, state |-> "Prepared", keys |-> {}, values |-> <<>>,
     finalized |-> 0, afterFinal |-> FALSE, rebind |-> FALSE,
     partial |-> FALSE, replaced |-> FALSE]

HostStmt(s, e) ==
    IF s.state = "Finalized"
    THEN IF e.op = "sqlite3_finalize"
         THEN [s EXCEPT !.finalized = IF @ < 2 THEN @ + 1 ELSE @]
         ELSE [s EXCEPT !.afterFinal = TRUE]
    ELSE CASE e.op = "bind_value" ->
                [s EXCEPT !.state = IF @ = "Prepared" THEN "Bound" ELSE @,
                          !.keys = @ \cup {e.key},
                          !.values = [k \in DOMAIN @ \cup {e.key} |->
                                         IF k = e.key THEN e.value ELSE @[k]],
                          !.rebind = @ \/ s.state \in {"Stepping", "Exhausted"}
                                       \/ e.key \in s.keys,
                          !.replaced = @ \/ (/\ e.key \in DOMAIN s.values
                                             /\ s.values[e.key] # e.value)]
           [] e.op = "statement_reset" ->
                [s EXCEPT !.state = "Prepared", !.keys = {}]
           [] e.op = "sqlite3_step" ->
                [s EXCEPT !.state = IF e.arg = "DONE" THEN "Exhausted"
                                    ELSE "Stepping",
                          !.partial = @ \/ s.keys # 1..ParamCount(s.sql)]
           [] e.op = "sqlite3_finalize" ->
                [s EXCEPT !.state = "Finalized", !.finalized = 1]
           [] OTHER -> s

\* The guest heap: buffers the host staged through lunatic_alloc and handed
\* over, not yet rebuilt into a Vec; `last` is the buffer the immediately
\* preceding host call returned.
HostMem(m, e) ==
    IF e.op \in BufferOps
    THEN [m EXCEPT !.pending = @ \cup {<<e.out, e.len>>},
                   !.last = <<e.out, e.len>>]
    ELSE IF e.op = "unroll_vec"
    THEN IF <<e.out, e.len>> \in m.pending /\ m.last = <<e.out, e.len>>
         THEN [m EXCEPT !.pending = @ \ {<<e.out, e.len>>}, !.last = <<>>]
         ELSE [m EXCEPT !.bad = TRUE, !.last = <<>>]
    ELSE [m EXCEPT !.last = <<>>]

HostApply(h, e) ==
    LET h1 == [h EXCEPT !.mem = HostMem(h.mem, e)] IN
    IF e.op = "query_prepare" /\ e.out # 0
    THEN [h1 EXCEPT !.stmts = Append(@, NewStmt(e.arg))]
    ELSE IF e.op \in StatementOps /\ e.id \in 1..Len(h.stmts)
    THEN [h1 EXCEPT !.stmts[e.id] = HostStmt(@, e)]
    ELSE h1

RECURSIVE HostRun(_, _)
HostRun(h, es) ==
    IF es = <<>> THEN h ELSE HostRun(HostApply(h, Head(es)), Tail(es))

\* How many calls of op a sequence of events holds.
Calls(es, op) == Cardinality({i \in 1..Len(es) : es[i].op = op})

(***************************************************************************)
(* sqlite/host_bindings.rs: one operator per wrapper, giving the calls it  *)
(* makes.  A buffer reply b is what the host hands back: the pointer and   *)
(* length of the staged buffer, and whether its bytes decode.              *)
(***************************************************************************)
ConstraintCodes ==
    {"SQLITE_CONSTRAINT_UNIQUE", "SQLITE_CONSTRAINT_PRIMARYKEY",
     "SQLITE_CONSTRAINT_FOREIGNKEY", "SQLITE_CONSTRAINT_NOTNULL",
     "SQLITE_CONSTRAINT_CHECK"}
Codes == ConstraintCodes \cup {"SQLITE_ERROR", "SQLITE_BUSY", "SQLITE_CONSTRAINT"}
Messages == {"constraint failed", "syntax error"}

\* What the host can return for last_error: SqliteError { code: Option,
\* message: Option }, or bytes that do not decode (ok = FALSE).
ErrorReplies ==
    {b \in [ptr : Ptrs, len : Lens, ok : BOOLEAN,
            code : Codes \cup {"None"}, message : Messages \cup {"None"}] :
        ~b.ok => (b.code = "None" /\ b.message = "None")}

\* The error replies the connection's operations are run with: bytes that do
\* not decode, and a unique violation with its message.
Replies ==
    {b \in ErrorReplies :
        b.ok => /\ b.code = "SQLITE_CONSTRAINT_UNIQUE"
                /\ b.message = "constraint failed"}

\* What the host can return for read_row and column_names: bytes that decode
\* or do not.
RowReplies ==
    [ptr : Ptrs, len : Lens, ok : BOOLEAN, code : {"None"}, message : {"None"},
     payload : {<<>>}]

\* The reply drawn for a call that is not made (inputs nothing reads are not
\* enumerated).
NoReply ==
    [ptr |-> 0, len |-> 0, ok |-> TRUE, code |-> "None", message |-> "None"]
ReplyIf(called) == IF called THEN Replies ELSE {NoReply}
RowReplyIf(called) == IF called THEN RowReplies ELSE {NoReply}

execute(conn_id, exec_str, status) ==
    <<Ev("execute", conn_id, exec_str, 0, status, 0)>>

query_prepare(conn_id, query, resource_id) ==
    <<Ev("query_prepare", conn_id, query, 0, resource_id, 0)>>

\* Mutant: the list holds the pair twice.
bind_value_twice(statement_id, key, value) ==
    <<[Ev("bind_value", statement_id, "", key, 0, 2) EXCEPT !.value = value]>>

\* BindList(vec![value]): the call carries a list of one pair.
bind_value(statement_id, key, value) ==
    <<[Ev("bind_value", statement_id, "", key, 0, 1) EXCEPT !.value = value]>>

\* Mutant: the wrapper left as a stub that makes no host call.
sqlite3_reset_stub(statement_id) == <<>>

sqlite3_reset(statement_id) ==
    <<Ev("statement_reset", statement_id, "", 0, 0, 0)>>

\* Mutant: the wrapper calls the statement_reset binding (copied from
\* sqlite3_reset and not changed).
sqlite3_finalize_as_reset(statement_id) ==
    <<Ev("statement_reset", statement_id, "", 0, 0, 0)>>

sqlite3_finalize(statement_id) ==
    <<Ev("sqlite3_finalize", statement_id, "", 0, 0, 0)>>

sqlite3_step(statement_id, res) ==
    <<Ev("sqlite3_step", statement_id, res, 0, 0, 0)>>

sqlite3_changes(conn_id) ==
    <<Ev("sqlite3_changes", conn_id, "", 0, 0, 0)>>

unroll_vec(ptr, len) ==
    <<Ev("unroll_vec", 0, "", 0, ptr, len)>>

Payload(b) == IF b.ok THEN "decodable" ELSE "undecodable"

host_last_error(connection_id, b) ==
    <<[Ev("last_error", connection_id,
          IF b.ok THEN b.code ELSE "undecodable", 0, b.ptr, b.len)
         EXCEPT !.msg = b.message]>>
        \o unroll_vec(b.ptr, b.len)

read_row(statement_id, b) ==
    <<Ev("read_row", statement_id, Payload(b), 0, b.ptr, b.len)>>
        \o unroll_vec(b.ptr, b.len)

\* Mutant: unroll_vec is given len_ptr as it was before the host call (0).
column_names_stale_len(statement_id, b) ==
    <<Ev("column_names", statement_id, Payload(b), 0, b.ptr, b.len)>>
        \o <<Ev("unroll_vec", 0, "", 0, b.ptr, 0)>>

column_names(statement_id, b) ==
    <<Ev("column_names", statement_id, Payload(b), 0, b.ptr, b.len)>>
        \o unroll_vec(b.ptr, b.len)

(***************************************************************************)
(* sqlite/diesel_connection.rs: RawConnection.                             *)
(***************************************************************************)
\* Mutant: a report that does not decode is passed on as the
\* DeserializationError host_bindings::last_error made of it, and a constraint
\* code of any kind is taken for a unique violation.
last_error_strict(connection_id, b, src) ==
    [events |-> host_last_error(connection_id, b),
     err |-> IF ~b.ok THEN Err("DeserializationError", src)
             ELSE IF b.code = "None"
             THEN DatabaseError("Unknown", "unknown error code", src)
             ELSE DatabaseError(
                    IF b.code \in ConstraintCodes THEN "UniqueViolation"
                    ELSE "Unknown",
                    IF b.message = "None" THEN "sqlite error" ELSE b.message,
                    src)]

\* fn last_error: a DatabaseError whatever the host's report decodes to.
last_error(connection_id, b, src) ==
    [events |-> host_last_error(connection_id, b),
     err |-> IF b.ok /\ b.code # "None"
             THEN DatabaseError(
                    CASE b.code \in {"SQLITE_CONSTRAINT_UNIQUE",
                                     "SQLITE_CONSTRAINT_PRIMARYKEY"}
                            -> "UniqueViolation"
                      [] b.code = "SQLITE_CONSTRAINT_FOREIGNKEY"
                            -> "ForeignKeyViolation"
                      [] b.code = "SQLITE_CONSTRAINT_NOTNULL"
                            -> "NotNullViolation"
                      [] b.code = "SQLITE_CONSTRAINT_CHECK" -> "CheckViolation"
                      [] OTHER -> "Unknown",
                    IF b.message = "None" THEN "sqlite error" ELSE b.message,
                    src)
             ELSE DatabaseError("Unknown", "unknown error code", src)]

\* Mutant: the status of execute is not looked at.
exec_ignore_status(connection_id, query, status, b) ==
    [events |-> execute(connection_id, query, status), ok |-> TRUE,
     err |-> NoErr]

exec(connection_id, query, status, b) ==
    IF status = 0
    THEN [events |-> execute(connection_id, query, status),
          ok |-> TRUE, err |-> NoErr]
    ELSE LET le == last_error(connection_id, b, query) IN
         [events |-> execute(connection_id, query, status) \o le.events,
          ok |-> FALSE, err |-> le.err]

rows_affected_by_last_query(connection_id) == sqlite3_changes(connection_id)

(***************************************************************************)
(* sqlite/stmt.rs, from the specification's statement lifecycle:           *)
(* prepare propagates the connection's last error on failure; bind makes   *)
(* one call per parameter, keys 1..n; a use that ends resets the           *)
(* statement, and a statement that is dropped is finalized.                *)
(***************************************************************************)
Statement_prepare(connection_id, text, new_id, ok, b) ==
    IF ok
    THEN [events |-> query_prepare(connection_id, text, new_id),
          ok |-> TRUE, err |-> NoErr]
    ELSE LET le == last_error(connection_id, b, text) IN
         [events |-> query_prepare(connection_id, text, 0) \o le.events,
          ok |-> FALSE, err |-> le.err]

Statement_drop(statement_id) == sqlite3_finalize(statement_id)

RECURSIVE BindFrom(_, _, _)
BindFrom(statement_id, k, values) ==
    IF k > Len(values) THEN <<>>
    ELSE LET pair == to_ffi_struct(k, values[k]) IN
         bind_value(statement_id, pair.key, pair.value)
            \o BindFrom(statement_id, k + 1, values)

\* Mutant: the last value is not bound.
StatementUse_bind_short(statement_id, cached, n, params) ==
    IF n > 0 /\ params = Unserializable
    THEN [events |-> IF cached THEN <<>> ELSE Statement_drop(statement_id),
          ok |-> FALSE, err |-> Err("SerializationError", "bind")]
    ELSE [events |-> BindFrom(statement_id, 1,
                              SubSeq(Params(params), 1, n - 1)),
          ok |-> TRUE, err |-> NoErr]

\* Mutant: the values after the first are bound over with those of the
\* first set.
StatementUse_bind_stale(statement_id, cached, n, params) ==
    IF n > 0 /\ params = Unserializable
    THEN [events |-> IF cached THEN <<>> ELSE Statement_drop(statement_id),
          ok |-> FALSE, err |-> Err("SerializationError", "bind")]
    ELSE [events |-> BindFrom(statement_id, 1, SubSeq(Params(params), 1, n))
                        \o BindFrom(statement_id, 2,
                                    SubSeq(Params("A"), 1, n)),
          ok |-> TRUE, err |-> NoErr]

\* The values are collected (serialized) first; when one fails to serialize
\* no bind is made and the statement is let go of.
StatementUse_bind(statement_id, cached, n, params) ==
    IF n > 0 /\ params = Unserializable
    THEN [events |-> IF cached THEN <<>> ELSE Statement_drop(statement_id),
          ok |-> FALSE, err |-> Err("SerializationError", "bind")]
    ELSE [events |-> BindFrom(statement_id, 1, SubSeq(Params(params), 1, n)),
          ok |-> TRUE, err |-> NoErr]

\* first is the flag the caller passes; the host's step takes the statement
\* only.
StatementUse_step(statement_id, connection_id, first, res, b) ==
    IF res = "ERROR"
    THEN LET le == last_error(connection_id, b, "step") IN
         [events |-> sqlite3_step(statement_id, res) \o le.events,
          res |-> "Err", err |-> le.err, first |-> first]
    ELSE [events |-> sqlite3_step(statement_id, res),
          res |-> IF res = "ROW" THEN "true" ELSE "false", err |-> NoErr,
          first |-> first]

\* MaybeCached::CannotCache owns its Statement, MaybeCached::Cached borrows
\* the cache's: only the first is dropped with the use.
StatementUse_drop(statement_id, cached) ==
    sqlite3_reset(statement_id)
        \o (IF cached THEN <<>> ELSE Statement_drop(statement_id))

(***************************************************************************)
(* diesel: StatementCache::cached_statement, and prepared_query over it.   *)
(***************************************************************************)
\* Mutant: the entry is made before the prepare is known to have succeeded.
cached_statement_keep_failed(cache, q, connection_id, new_id, ok, b) ==
    LET text == sql(q)
        prep == Statement_prepare(connection_id, text, new_id, ok, b)
    IN  IF ~is_safe_to_cache_prepared(q)
        THEN [events |-> prep.events, ok |-> prep.ok, err |-> prep.err,
              cache |-> cache, id |-> IF prep.ok THEN new_id ELSE 0,
              cached |-> FALSE]
        ELSE IF text \in DOMAIN cache
        THEN [events |-> <<>>, ok |-> TRUE, err |-> NoErr,
              cache |-> cache, id |-> cache[text], cached |-> TRUE]
        ELSE [events |-> prep.events, ok |-> prep.ok, err |-> prep.err,
              cache |-> cache @@ (text :> new_id),
              id |-> IF prep.ok THEN new_id ELSE 0, cached |-> TRUE]

cached_statement(cache, q, connection_id, new_id, ok, b) ==
    LET text == sql(q)
        prep == Statement_prepare(connection_id, text, new_id, ok, b)
    IN  IF ~is_safe_to_cache_prepared(q)
        THEN [events |-> prep.events, ok |-> prep.ok, err |-> prep.err,
              cache |-> cache, id |-> IF prep.ok THEN new_id ELSE 0,
              cached |-> FALSE]
        ELSE IF text \in DOMAIN cache
        THEN [events |-> <<>>, ok |-> TRUE, err |-> NoErr,
              cache |-> cache, id |-> cache[text], cached |-> TRUE]
        ELSE [events |-> prep.events, ok |-> prep.ok, err |-> prep.err,
              cache |-> IF prep.ok THEN cache @@ (text :> new_id) ELSE cache,
              id |-> IF prep.ok THEN new_id ELSE 0, cached |-> TRUE]

\* Mutant: every statement is kept under its SQL text, safe to cache or not.
prepared_query_cache_all(cache, q, params, connection_id, new_id, ok, b) ==
    LET text == sql(q)
        prep == Statement_prepare(connection_id, text, new_id, ok, b)
    IN  IF text \in DOMAIN cache
        THEN [events |-> StatementUse_bind(cache[text], TRUE, binds(q),
                                            params).events,
              ok |-> TRUE, err |-> NoErr, cache |-> cache,
              id |-> cache[text], cached |-> TRUE]
        ELSE IF ~prep.ok
        THEN [events |-> prep.events, ok |-> FALSE, err |-> prep.err,
              cache |-> cache, id |-> 0, cached |-> TRUE]
        ELSE [events |-> prep.events
                  \o StatementUse_bind(new_id, TRUE, binds(q), params).events,
              ok |-> TRUE, err |-> NoErr, cache |-> cache @@ (text :> new_id),
              id |-> new_id, cached |-> TRUE]

\* Mutant: no statement is kept: each is prepared for one use.
prepared_query_cache_none(cache, q, params, connection_id, new_id, ok, b) ==
    LET prep == Statement_prepare(connection_id, sql(q), new_id, ok, b) IN
    IF ~prep.ok
    THEN [events |-> prep.events, ok |-> FALSE, err |-> prep.err,
          cache |-> cache, id |-> 0, cached |-> FALSE]
    ELSE [events |-> prep.events
                  \o StatementUse_bind(new_id, TRUE, binds(q), params).events,
          ok |-> TRUE, err |-> NoErr, cache |-> cache, id |-> new_id,
          cached |-> FALSE]

\* Mutant: the cache is not looked up: a cacheable statement is prepared
\* again and stored over the entry of the same text.
prepared_query_no_lookup(cache, q, params, connection_id, new_id, ok, b) ==
    LET text == sql(q)
        safe == is_safe_to_cache_prepared(q)
        prep == Statement_prepare(connection_id, text, new_id, ok, b)
    IN  IF ~prep.ok
        THEN [events |-> prep.events, ok |-> FALSE, err |-> prep.err,
              cache |-> cache, id |-> 0, cached |-> safe]
        ELSE [events |-> prep.events
                  \o StatementUse_bind(new_id, TRUE, binds(q), params).events,
              ok |-> TRUE, err |-> NoErr,
              cache |-> IF safe
                        THEN [t \in DOMAIN cache \cup {text} |->
                                 IF t = text THEN new_id ELSE cache[t]]
                        ELSE cache,
              id |-> new_id, cached |-> safe]

\* StatementUse::bind(statement, source)?: the statement bound, or the
\* error of the bind.
Bound_by(st, bd) ==
    [st EXCEPT !.events = @ \o bd.events, !.ok = bd.ok, !.err = bd.err]

Bind(st, q, params) ==
    IF ~st.ok THEN st
    ELSE Bound_by(st, StatementUse_bind(st.id, st.cached, binds(q), params))

prepared_query(cache, q, params, connection_id, new_id, ok, b) ==
    Bind(cached_statement(cache, q, connection_id, new_id, ok, b), q, params)

\* Mutant: the result of run is not looked at: the change counter is read
\* whether the statement ran or failed.
execute_returning_count_unchecked(cache, q, params, connection_id, new_id, ok, res, b) ==
    LET pq == prepared_query(cache, q, params, connection_id, new_id, ok, b)
        st == StatementUse_step(pq.id, connection_id, TRUE, res, b)
        dr == StatementUse_drop(pq.id, pq.cached)
    IN  IF ~pq.ok
        THEN [events |-> pq.events, ok |-> FALSE, err |-> pq.err,
              cache |-> pq.cache]
        ELSE [events |-> pq.events \o st.events \o dr
                           \o rows_affected_by_last_query(connection_id),
              ok |-> st.res # "Err", err |-> st.err, cache |-> pq.cache]

\* fn execute_returning_count: prepared_query(source)?, run()?, then the
\* host's change counter.  run consumes the use, which is dropped (reset,
\* and finalized when not cached) before the counter is read.
execute_returning_count(cache, q, params, connection_id, new_id, ok, res, b) ==
    LET pq == prepared_query(cache, q, params, connection_id, new_id, ok, b)
        st == StatementUse_step(pq.id, connection_id, TRUE, res, b)
        dr == StatementUse_drop(pq.id, pq.cached)
    IN  IF ~pq.ok
        THEN [events |-> pq.events, ok |-> FALSE, err |-> pq.err,
              cache |-> pq.cache]
        ELSE IF st.res = "Err"
        THEN [events |-> pq.events \o st.events \o dr, ok |-> FALSE,
              err |-> st.err, cache |-> pq.cache]
        ELSE [events |-> pq.events \o st.events \o dr
                           \o rows_affected_by_last_query(connection_id),
              ok |-> TRUE, err |-> NoErr, cache |-> pq.cache]

\* fn load: prepared_query(source)?, then StatementIterator::new.
load(cache, q, params, connection_id, new_id, ok, b) ==
    LET pq == prepared_query(cache, q, params, connection_id, new_id, ok, b) IN
    [events |-> pq.events, ok |-> pq.ok, err |-> pq.err, cache |-> pq.cache,
     cursor |-> IF pq.ok
                THEN <<[statement_id |-> pq.id, cached |-> pq.cached,
                        params |-> params, is_first |-> TRUE,
                        names |-> 0]>>
                ELSE <<>>]

\* Mutant: when the step reports no more rows, next finalizes the statement
\* at once.
next_finalize_when_done(cur, connection_id, res, b1, b2) ==
    LET id == cur.statement_id
        st == StatementUse_step(id, connection_id, cur.is_first, res, b1)
    IN  IF st.res = "Err"
        THEN [events |-> st.events, res |-> "Some(Err)", err |-> st.err,
              first |-> st.first, is_first |-> FALSE,
              panic |-> FALSE]
        ELSE IF st.res = "false"
        THEN [events |-> st.events \o sqlite3_finalize(id), res |-> "None",
              err |-> NoErr, first |-> st.first, is_first |-> FALSE,
              panic |-> FALSE]
        ELSE IF ~b1.ok
        THEN [events |-> st.events \o read_row(id, b1), res |-> "Some(Err)",
              err |-> Err("DeserializationError", "read_row"),
              first |-> st.first, is_first |-> FALSE,
              panic |-> FALSE]
        ELSE IF ~b2.ok
        THEN [events |-> st.events \o read_row(id, b1) \o column_names(id, b2),
              res |-> "panic", err |-> Err("panic", "column_names"),
              first |-> st.first, is_first |-> FALSE,
              panic |-> TRUE]
        ELSE [events |-> st.events \o read_row(id, b1) \o column_names(id, b2),
              res |-> "Some(Ok)", err |-> NoErr,
              first |-> st.first, is_first |-> FALSE,
              panic |-> FALSE]

\* Mutant: the row is read whatever the step reported, short of an error.
next_read_on_done(cur, connection_id, res, b1, b2) ==
    LET id == cur.statement_id
        st == StatementUse_step(id, connection_id, cur.is_first, res, b1)
    IN  IF st.res = "Err"
        THEN [events |-> st.events, res |-> "Some(Err)", err |-> st.err,
              first |-> st.first, is_first |-> FALSE,
              panic |-> FALSE]
        ELSE IF st.res = "false"
        THEN [events |-> st.events \o read_row(id, b1), res |-> "None",
              err |-> NoErr, first |-> st.first, is_first |-> FALSE,
              panic |-> FALSE]
        ELSE IF ~b1.ok
        THEN [events |-> st.events \o read_row(id, b1), res |-> "Some(Err)",
              err |-> Err("DeserializationError", "read_row"),
              first |-> st.first, is_first |-> FALSE,
              panic |-> FALSE]
        ELSE IF ~b2.ok
        THEN [events |-> st.events \o read_row(id, b1) \o column_names(id, b2),
              res |-> "panic", err |-> Err("panic", "column_names"),
              first |-> st.first, is_first |-> FALSE,
              panic |-> TRUE]
        ELSE [events |-> st.events \o read_row(id, b1) \o column_names(id, b2),
              res |-> "Some(Ok)", err |-> NoErr,
              first |-> st.first, is_first |-> FALSE,
              panic |-> FALSE]

\* Mutant: a row is stepped over before the one that is read.
next_step_twice(cur, connection_id, res, b1, b2) ==
    LET id == cur.statement_id
        st == StatementUse_step(id, connection_id, cur.is_first, res, b1)
    IN  IF st.res = "Err"
        THEN [events |-> st.events, res |-> "Some(Err)", err |-> st.err,
              first |-> st.first, is_first |-> FALSE,
              panic |-> FALSE, row |-> <<>>]
        ELSE IF st.res = "false"
        THEN [events |-> st.events, res |-> "None", err |-> NoErr,
              first |-> st.first, is_first |-> FALSE,
              panic |-> FALSE, row |-> <<>>]
        ELSE IF ~b1.ok
        THEN [events |-> st.events \o read_row(id, b1), res |-> "Some(Err)",
              err |-> Err("DeserializationError", "read_row"),
              first |-> st.first, is_first |-> FALSE,
              panic |-> FALSE, row |-> <<>>]
        ELSE IF ~b2.ok
        THEN [events |-> st.events \o read_row(id, b1) \o column_names(id, b2),
              res |-> "panic", err |-> Err("panic", "column_names"),
              first |-> st.first, is_first |-> FALSE,
              panic |-> TRUE, row |-> <<>>]
        ELSE [events |-> st.events \o st.events \o read_row(id, b1)
                           \o column_names(id, b2),
              res |-> "Some(Ok)", err |-> NoErr,
              first |-> st.first, is_first |-> FALSE,
              panic |-> FALSE,
              row |-> <<[inner_row |-> b1.payload,
                         field_names |-> b2.payload]>>]

\* Mutant: is_first is left as it is.
next_keep_first(cur, connection_id, res, b1, b2) ==
    LET id == cur.statement_id
        st == StatementUse_step(id, connection_id, cur.is_first, res, b1)
    IN  IF st.res = "Err"
        THEN [events |-> st.events, res |-> "Some(Err)", err |-> st.err,
              first |-> st.first, is_first |-> cur.is_first,
              panic |-> FALSE, row |-> <<>>]
        ELSE IF st.res = "false"
        THEN [events |-> st.events, res |-> "None", err |-> NoErr,
              first |-> st.first, is_first |-> cur.is_first,
              panic |-> FALSE, row |-> <<>>]
        ELSE IF ~b1.ok
        THEN [events |-> st.events \o read_row(id, b1), res |-> "Some(Err)",
              err |-> Err("DeserializationError", "read_row"),
              first |-> st.first, is_first |-> cur.is_first,
              panic |-> FALSE, row |-> <<>>]
        ELSE IF ~b2.ok
        THEN [events |-> st.events \o read_row(id, b1) \o column_names(id, b2),
              res |-> "panic", err |-> Err("panic", "column_names"),
              first |-> st.first, is_first |-> cur.is_first,
              panic |-> TRUE, row |-> <<>>]
        ELSE [events |-> st.events \o read_row(id, b1) \o column_names(id, b2),
              res |-> "Some(Ok)", err |-> NoErr,
              first |-> st.first, is_first |-> cur.is_first,
              panic |-> FALSE,
              row |-> <<[inner_row |-> b1.payload,
                         field_names |-> b2.payload]>>]

\* Iterator::next of StatementIterator.  b1 is the host's reply to read_row
\* (or to last_error when the step failed), b2 its reply to column_names,
\* whose result is unwrapped: a panic when it does not decode.
next(cur, connection_id, res, b1, b2) ==
    LET id == cur.statement_id
        st == StatementUse_step(id, connection_id, cur.is_first, res, b1)
    IN  IF st.res = "Err"
        THEN [events |-> st.events, res |-> "Some(Err)", err |-> st.err,
              first |-> st.first, is_first |-> FALSE,
              panic |-> FALSE, row |-> <<>>]
        ELSE IF st.res = "false"
        THEN [events |-> st.events, res |-> "None", err |-> NoErr,
              first |-> st.first, is_first |-> FALSE,
              panic |-> FALSE, row |-> <<>>]
        ELSE IF ~b1.ok
        THEN [events |-> st.events \o read_row(id, b1), res |-> "Some(Err)",
              err |-> Err("DeserializationError", "read_row"),
              first |-> st.first, is_first |-> FALSE,
              panic |-> FALSE, row |-> <<>>]
        ELSE IF ~b2.ok
        THEN [events |-> st.events \o read_row(id, b1) \o column_names(id, b2),
              res |-> "panic", err |-> Err("panic", "column_names"),
              first |-> st.first, is_first |-> FALSE,
              panic |-> TRUE, row |-> <<>>]
        ELSE [events |-> st.events \o read_row(id, b1) \o column_names(id, b2),
              res |-> "Some(Ok)", err |-> NoErr,
              first |-> st.first, is_first |-> FALSE,
              panic |-> FALSE,
              row |-> <<[inner_row |-> b1.payload,
                         field_names |-> b2.payload]>>]

\* Dropping a SqliteConnection drops statement_cache (every cached Statement)
\* before raw_connection; RawConnection has no Drop of its own.
RECURSIVE DropStatements(_)
DropStatements(ids) ==
    IF ids = {} THEN <<>>
    ELSE LET i == CHOOSE x \in ids : \A y \in ids : x <= y IN
         Statement_drop(i) \o DropStatements(ids \ {i})

SqliteConnection_drop(cache) ==
    DropStatements({cache[t] : t \in DOMAIN cache})

(***************************************************************************)
(* diesel: AnsiTransactionManager over batch_execute.  ts is the manager's *)
(* status: Valid with a depth (0: no transaction), or InError.             *)
(***************************************************************************)
TsValid(d) == [status |-> "Valid", depth |-> d]
TsInError == [status |-> "InError", depth |-> 0]

begin_transaction_sql(ts, connection_id, text, status, b) ==
    IF ts.status = "InError"
    THEN [events |-> <<>>, ok |-> FALSE,
          err |-> Err("BrokenTransactionManager", ""), ts |-> ts]
    ELSE IF ts.depth > 0
    THEN [events |-> <<>>, ok |-> FALSE,
          err |-> Err("AlreadyInTransaction", ""), ts |-> ts]
    ELSE LET r == exec(connection_id, text, status, b) IN
         [events |-> r.events, ok |-> r.ok, err |-> r.err,
          ts |-> IF r.ok THEN TsValid(1) ELSE ts]

rollback_transaction(ts, connection_id, status, b) ==
    IF ts.status = "InError"
    THEN [events |-> <<>>, ok |-> FALSE,
          err |-> Err("BrokenTransactionManager", ""), ts |-> ts]
    ELSE IF ts.depth = 0
    THEN [events |-> <<>>, ok |-> FALSE,
          err |-> Err("NotInTransaction", ""), ts |-> ts]
    ELSE LET text == IF ts.depth = 1 THEN "ROLLBACK"
                     ELSE "ROLLBACK TO SAVEPOINT"
             r == exec(connection_id, text, status, b)
         IN  [events |-> r.events, ok |-> r.ok, err |-> r.err,
              ts |-> IF r.ok \/ ts.depth > 1 THEN TsValid(ts.depth - 1)
                     ELSE TsInError]

commit_transaction(ts, connection_id, s1, b1, s2, b2) ==
    IF ts.status = "InError"
    THEN [events |-> <<>>, ok |-> FALSE,
          err |-> Err("BrokenTransactionManager", ""), ts |-> ts]
    ELSE IF ts.depth = 0
    THEN [events |-> <<>>, ok |-> FALSE,
          err |-> Err("NotInTransaction", ""), ts |-> ts]
    ELSE LET text == IF ts.depth = 1 THEN "COMMIT" ELSE "RELEASE SAVEPOINT"
             r == exec(connection_id, text, s1, b1)
             rb == rollback_transaction(ts, connection_id, s2, b2)
         IN  IF r.ok
             THEN [events |-> r.events, ok |-> TRUE, err |-> NoErr,
                   ts |-> TsValid(ts.depth - 1)]
             ELSE IF ts.depth > 1
             THEN [events |-> r.events, ok |-> FALSE, err |-> r.err, ts |-> ts]
             ELSE IF rb.ok
             THEN [events |-> r.events \o rb.events, ok |-> FALSE,
                   err |-> r.err, ts |-> rb.ts]
             ELSE [events |-> r.events \o rb.events, ok |-> FALSE,
                   err |-> Err("RollbackErrorOnCommit", "COMMIT"),
                   ts |-> TsInError]

(***************************************************************************)
(* sqlite/diesel_connection.rs: transaction_sql, in its two halves: up to  *)
(* the call of the closure, and from the closure's return.                 *)
(***************************************************************************)
\* Mutant: the result of begin_transaction_sql is dropped (no `?`): the
\* closure always runs.
transaction_sql_begin_unchecked(ts, connection_id, text, status, b) ==
    LET r == begin_transaction_sql(ts, connection_id, text, status, b) IN
    [events |-> r.events, run |-> TRUE, err |-> r.err, ts |-> r.ts]

\* begin_transaction_sql(..)?  : the closure runs only when this is Ok.
transaction_sql_begin(ts, connection_id, text, status, b) ==
    LET r == begin_transaction_sql(ts, connection_id, text, status, b) IN
    [events |-> r.events, run |-> r.ok, err |-> r.err, ts |-> r.ts]

\* Mutant: the error arm returns Err(e) without rolling back.
transaction_sql_end_no_rollback(ts, connection_id, e, s1, b1, s2, b2) ==
    IF e = NoErr
    THEN commit_transaction(ts, connection_id, s1, b1, s2, b2)
    ELSE [events |-> <<>>, ok |-> FALSE, err |-> e, ts |-> ts]

\* Mutant: the error arm ignores the rollback's result (no `?`).
transaction_sql_end_ignore_rollback(ts, connection_id, e, s1, b1, s2, b2) ==
    IF e = NoErr
    THEN commit_transaction(ts, connection_id, s1, b1, s2, b2)
    ELSE LET rb == rollback_transaction(ts, connection_id, s1, b1) IN
         [events |-> rb.events, ok |-> FALSE, err |-> e, ts |-> rb.ts]

\* Mutant: the Ok arm returns Ok(value) without committing.
transaction_sql_end_no_commit(ts, connection_id, e, s1, b1, s2, b2) ==
    IF e = NoErr
    THEN [events |-> <<>>, ok |-> TRUE, err |-> NoErr, ts |-> ts]
    ELSE LET rb == rollback_transaction(ts, connection_id, s1, b1) IN
         [events |-> rb.events, ok |-> FALSE,
          err |-> IF rb.ok THEN e ELSE rb.err, ts |-> rb.ts]

\* match f(..) { Ok => commit_transaction(..)?, Err(e) => { rollback_transaction(..)?; Err(e) } }
transaction_sql_end(ts, connection_id, e, s1, b1, s2, b2) ==
    IF e = NoErr
    THEN commit_transaction(ts, connection_id, s1, b1, s2, b2)
    ELSE LET rb == rollback_transaction(ts, connection_id, s1, b1) IN
         [events |-> rb.events, ok |-> FALSE,
          err |-> IF rb.ok THEN e ELSE rb.err, ts |-> rb.ts]

(***************************************************************************)
(* sqlite/diesel_connection.rs: SqliteRow and SqliteField.  A row is the   *)
(* sequence of its values and the list of its column names; columns are    *)
(* numbered from 0.  An Option is a sequence of length 0 or 1.             *)
(***************************************************************************)
SqliteValues == {"Null", "Integer(7)", "Text(x)"}
ColumnNames == {"a", "b"}

field_count(r) == Len(r.inner_row)

\* lunatic_sqlite_api::SqliteRow::get_column.
get_column(r, i) ==
    IF i + 1 \in DOMAIN r.inner_row THEN <<r.inner_row[i + 1]>> ELSE <<>>

\* impl RowIndex<usize>.
idx_usize(r, i) == IF i < field_count(r) THEN <<i>> ELSE <<>>

\* Mutant: position of the last column of that name.
idx_str_last(r, name) ==
    LET ps == {i \in DOMAIN r.field_names : r.field_names[i] = name} IN
    IF ps = {} THEN <<>>
    ELSE <<(CHOOSE i \in ps : \A j \in ps : j <= i) - 1>>

\* impl RowIndex<&str>: field_names.iter().position(|s| s == field_name).
idx_str(r, name) ==
    LET ps == {i \in DOMAIN r.field_names : r.field_names[i] = name} IN
    IF ps = {} THEN <<>>
    ELSE <<(CHOOSE i \in ps : \A j \in ps : i <= j) - 1>>

\* Row::get, given what self.idx(idx) returned.
get(r, column) ==
    IF column = <<>> THEN <<>>
    ELSE LET original_column == get_column(r, column[1]) IN
         IF original_column = <<>> THEN <<>>
         ELSE <<[inner_field |-> original_column[1],
                 field_name |-> IF column[1] + 1 \in DOMAIN r.field_names
                                THEN <<r.field_names[column[1] + 1]>>
                                ELSE <<>>]>>

\* impl Field for SqliteField.
field_name(f) == f.field_name
value(f) == <<f.inner_field>>
is_null(f) == value(f) = <<>>

(***************************************************************************)
(* sqlite/bind_collector.rs.                                               *)
(***************************************************************************)
BindValues ==
    {Null, I32(1), I64(<<1, 0>>), F64(15), String(<<120>>),
     BorrowedString(<<104>>), BorrowedBinary(<<0>>), Binary(<<255, 0>>)}
SqliteTypes == {"Integer", "Text"}

\* impl From<Option<T>> for SqliteBindValue; v is Some's value converted.
from_option(o) == IF o = <<>> THEN Null ELSE o[1]

\* Mutant: what the serializer wrote is stored whatever it returned.
push_bound_value_keep_written(binds_, written, isNull, ok, metadata) ==
    IF ~ok THEN [binds |-> binds_, out |-> "SerializationError"]
    ELSE [binds |-> Append(binds_, [value |-> written, metadata |-> metadata]),
          out |-> "Ok"]

\* Mutant: the entry is put at the head of the list.
push_bound_value_at_head(binds_, written, isNull, ok, metadata) ==
    IF ~ok THEN [binds |-> binds_, out |-> "SerializationError"]
    ELSE [binds |-> <<[value |-> IF isNull = "No" THEN written ELSE Null,
                       metadata |-> metadata]>> \o binds_,
          out |-> "Ok"]

\* push_bound_value: the output starts as Null; to_sql leaves `written` in
\* it and returns isNull, or fails (ok = FALSE).
push_bound_value(binds_, written, isNull, ok, metadata) ==
    IF ~ok THEN [binds |-> binds_, out |-> "SerializationError"]
    ELSE [binds |-> Append(binds_,
                      [value |-> IF isNull = "No" THEN written ELSE Null,
                       metadata |-> metadata]),
          out |-> "Ok"]

(***************************************************************************)
(* Opening a connection.                                                   *)
(***************************************************************************)
DatabaseUrls == {":memory:", "test.db", ""}
HostIds == 0..MaxConn

\* host_bindings::open: conn_id is 0; the host writes the identifier it
\* assigned through the pointer it is given, which is `&mut (conn_id as u32)`,
\* the address of a temporary copy; conn_id is returned as it was.
open(path, assigned) ==
    [events |-> <<Ev("open", 0, path, 0, assigned, 0)>>, conn_id |-> 0]

RawConnection_establish(path, assigned) ==
    LET o == open(path, assigned) IN
    [events |-> o.events, connection_id |-> o.conn_id]

NoStatements == [t \in {} |-> 0]
NoConnection ==
    [alive |-> FALSE, connection_id |-> 0, statement_cache |-> NoStatements,
     transaction_state |-> TsValid(0)]

\* Mutant: the path is checked, and an empty one refused.
establish_checked(database_url, assigned) ==
    LET raw == RawConnection_establish(database_url, assigned) IN
    IF database_url = ""
    THEN [events |-> <<>>, ok |-> FALSE, err |-> Err("BadConnection", ""),
          conn |-> NoConnection]
    ELSE [events |-> raw.events, ok |-> TRUE, err |-> NoErr,
          conn |-> [alive |-> TRUE, connection_id |-> raw.connection_id,
                    statement_cache |-> NoStatements,
                    transaction_state |-> TsValid(0)]]

\* SqliteConnection::establish.
establish(database_url, assigned) ==
    LET raw == RawConnection_establish(database_url, assigned) IN
    [events |-> raw.events, ok |-> TRUE, err |-> NoErr,
     conn |-> [alive |-> TRUE, connection_id |-> raw.connection_id,
               statement_cache |-> NoStatements,
               transaction_state |-> TsValid(0)]]

(***************************************************************************)
(* The state machine.                                                      *)
(***************************************************************************)
BatchSql == "CREATE TABLE t (id INTEGER)"
InsertSql == "INSERT INTO t (id) VALUES (1)"
BatchTexts == {BatchSql, InsertSql}
Statuses == {0, 1}

NoRow == [inner_row |-> <<>>, field_names |-> <<>>]
NoField == [by |-> "", idx |-> 0, name |-> "", got |-> <<>>]
NoCollector ==
    [binds |-> <<>>, bound |-> FALSE,
     call |-> [op |-> "", written |-> "", is_null |-> "", out |-> ""]]
\* The host: the statements it has prepared, the guest memory it has staged
\* buffers in, and the rows of table t in insertion order with the position
\* of the full select in them (and whether the select has been reset).
NoHost ==
    [stmts |-> <<>>, mem |-> [pending |-> {}, last |-> <<>>, bad |-> FALSE],
     rows |-> <<>>, pos |-> 0, again |-> FALSE]
Opened(c, assigned) ==
    [connection_id |-> c.connection_id, assigned |-> assigned, used |-> FALSE]

\* The guest has established its first connection, to which the host gave
\* its first identifier.
Init ==
    /\ \E database_url \in DatabaseUrls :
         LET r == establish(database_url, 0) IN
         /\ conn = r.conn
         /\ trace = r.events
         /\ ret = Ret("establish", database_url, Result(r.ok), r.err, 0, FALSE,
                      NoErr)
         /\ opened = IF r.ok THEN <<Opened(r.conn, 0)>> ELSE <<>>
    /\ cursor = <<>>
    /\ frames = <<>>
    /\ host = NoHost
    /\ panicked = FALSE
    /\ row = NoRow
    /\ field = NoField
    /\ collector = NoCollector

\* Mutant: the cursor does not borrow the connection.
Ready_unborrowed == conn.alive /\ ~panicked

\* A live cursor borrows the connection mutably: nothing else can use the
\* connection until the cursor is dropped.
Ready == conn.alive /\ ~panicked /\ cursor = <<>>

Depth == conn.transaction_state.depth
NextId == Len(host.stmts) + 1
CacheHit(q) ==
    is_safe_to_cache_prepared(q) /\ sql(q) \in DOMAIN conn.statement_cache
CanPrepare(q) == Len(host.stmts) < MaxStmts \/ CacheHit(q)
\* Whether the host's query_prepare succeeds; not drawn on a cache hit, where
\* no prepare is made.
PrepareOutcomes(q) == IF CacheHit(q) THEN {TRUE} ELSE BOOLEAN

\* Mutant: the cached statements are let go of before the SQL is run.
BatchExecute_clear_cache ==
    /\ Ready
    /\ \E status \in Statuses :
       \E b \in ReplyIf(status # 0) :
         LET r == exec(conn.connection_id, BatchSql, status, b)
             ev == SqliteConnection_drop(conn.statement_cache) \o r.events
         IN
         /\ trace' = ev
         /\ host' = HostRun(host, ev)
         /\ ret' = Ret("batch_execute", "", Result(r.ok), r.err, Depth, FALSE,
                       NoErr)
    /\ conn' = [conn EXCEPT !.statement_cache = NoStatements]
    /\ UNCHANGED <<cursor, frames, panicked, aux>>

BatchExecute ==
    /\ Ready
    /\ \E status \in Statuses :
       \E b \in ReplyIf(status # 0) :
         LET r == exec(conn.connection_id, BatchSql, status, b) IN
         /\ trace' = r.events
         /\ host' = HostRun(host, r.events)
         /\ ret' = Ret("batch_execute", "", Result(r.ok), r.err, Depth, FALSE,
                       NoErr)
    /\ UNCHANGED <<conn, cursor, frames, panicked, aux>>

\* Whether the values are serialized: not when the prepare failed.
Binds(ok, q) == ok /\ binds(q) > 0
\* Whether the statement is stepped.
Steps(ok, q, params) == ok /\ ~(binds(q) > 0 /\ params = Unserializable)

ExecuteReturningCountWith(sets) ==
    /\ Ready
    /\ \E q \in Queries :
       \E ok \in PrepareOutcomes(q) :
       \E params \in (IF Binds(ok, q) THEN sets ELSE {"A"}) :
       \E res \in (IF Steps(ok, q, params) THEN StepResults ELSE {"DONE"}) :
       \E b \in ReplyIf(~ok \/ res = "ERROR") :
         LET r == execute_returning_count(conn.statement_cache, q, params,
                      conn.connection_id, NextId, ok, res, b) IN
         /\ CanPrepare(q)
         /\ trace' = r.events
         /\ host' = HostRun(host, r.events)
         /\ conn' = [conn EXCEPT !.statement_cache = r.cache]
         /\ ret' = [Ret("execute_returning_count", q, Result(r.ok), r.err,
                        Depth, FALSE, NoErr) EXCEPT !.params = params]
    /\ UNCHANGED <<cursor, frames, panicked, aux>>

ExecuteReturningCount == ExecuteReturningCountWith({"A"})

LoadQueries(queries, sets) ==
    /\ Ready
    /\ \E q \in queries :
       \E ok \in PrepareOutcomes(q) :
       \E params \in (IF Binds(ok, q) THEN sets ELSE {"A"}) :
       \E b \in ReplyIf(~ok) :
         LET r == load(conn.statement_cache, q, params, conn.connection_id,
                       NextId, ok, b) IN
         /\ CanPrepare(q)
         /\ trace' = r.events
         /\ host' = HostRun(host, r.events)
         /\ conn' = [conn EXCEPT !.statement_cache = r.cache]
         /\ cursor' = r.cursor
         /\ ret' = [Ret("load", q, Result(r.ok), r.err, Depth, FALSE, NoErr)
                      EXCEPT !.params = params]
    /\ UNCHANGED <<frames, panicked, aux>>

LoadWith(sets) == LoadQueries(Queries, sets)

Load == LoadWith({"A"})

IterNext ==
    /\ conn.alive /\ ~panicked /\ cursor # <<>>
    /\ \E res \in StepResults :
       \E b1 \in (IF res = "ROW" THEN RowReplies ELSE ReplyIf(res = "ERROR")) :
       \E b2 \in RowReplyIf(res = "ROW" /\ b1.ok) :
         LET r == next(cursor[1], conn.connection_id, res, b1, b2) IN
         /\ trace' = r.events
         /\ host' = HostRun(host, r.events)
         /\ cursor' = <<[cursor[1] EXCEPT
                          !.is_first = r.is_first,
                          !.names = IF @ < MaxRows THEN @ + Calls(r.events, "column_names")
                                    ELSE @]>>
         /\ ret' = [Ret("next", "", r.res, r.err, Depth, FALSE, NoErr)
                      EXCEPT !.first = r.first]
         /\ panicked' = r.panic
    /\ UNCHANGED <<conn, frames, aux>>

DropCursor ==
    /\ conn.alive /\ ~panicked /\ cursor # <<>>
    /\ LET ev == StatementUse_drop(cursor[1].statement_id, cursor[1].cached) IN
         /\ trace' = ev
         /\ host' = HostRun(host, ev)
    /\ cursor' = <<>>
    /\ ret' = Ret("drop_cursor", "", "Ok", NoErr, Depth, FALSE, NoErr)
    /\ UNCHANGED <<conn, frames, panicked, aux>>

TransactionSql(op, text) ==
    /\ Ready
    /\ Len(frames) < MaxDepth
    /\ \E status \in Statuses :
       \E b \in ReplyIf(status # 0) :
         LET r == transaction_sql_begin(conn.transaction_state,
                      conn.connection_id, text, status, b) IN
         /\ trace' = r.events
         /\ host' = HostRun(host, r.events)
         /\ conn' = [conn EXCEPT !.transaction_state = r.ts]
         /\ frames' = IF r.run
                      THEN Append(frames, [op |-> op, entryDepth |-> Depth])
                      ELSE frames
         /\ ret' = IF r.run
                   THEN Ret(op, "", "Running", NoErr, Depth, TRUE, NoErr)
                   ELSE Ret(op, "", "Err", r.err, Depth, FALSE, NoErr)
    /\ UNCHANGED <<cursor, panicked, aux>>

ImmediateTransaction == TransactionSql("immediate_transaction", "BEGIN IMMEDIATE")

ExclusiveTransaction == TransactionSql("exclusive_transaction", "BEGIN EXCLUSIVE")

\* What a closure may return: Ok, an error of its own, or (by `?`) the error
\* of the operation that just failed inside it.
ClosureResults ==
    {NoErr, Err("UserError", "closure")}
        \cup (IF ret.res \in {"Err", "Some(Err)"} THEN {ret.err} ELSE {})

ClosureReturn ==
    /\ Ready
    /\ frames # <<>>
    /\ \E e \in ClosureResults, s1 \in Statuses :
       \E b1 \in ReplyIf(s1 # 0) :
       \E s2 \in (IF e = NoErr /\ s1 # 0 THEN Statuses ELSE {0}) :
       \E b2 \in ReplyIf(s2 # 0) :
         LET top == frames[Len(frames)]
             r == transaction_sql_end(conn.transaction_state,
                      conn.connection_id, e, s1, b1, s2, b2)
         IN
         /\ trace' = r.events
         /\ host' = HostRun(host, r.events)
         /\ conn' = [conn EXCEPT !.transaction_state = r.ts]
         /\ frames' = SubSeq(frames, 1, Len(frames) - 1)
         /\ ret' = Ret(top.op, "", Result(r.ok), r.err, top.entryDepth, TRUE, e)
    /\ UNCHANGED <<cursor, panicked, aux>>

\* The connection can be dropped only when nothing borrows it.
DropConnection ==
    /\ Ready
    /\ frames = <<>>
    /\ LET ev == SqliteConnection_drop(conn.statement_cache) IN
         /\ trace' = ev
         /\ host' = HostRun(host, ev)
    /\ conn' = [conn EXCEPT !.alive = FALSE,
                            !.statement_cache = NoStatements]
    /\ ret' = Ret("drop_connection", "", "Ok", NoErr, Depth, FALSE, NoErr)
    /\ UNCHANGED <<cursor, frames, panicked, aux>>

Next ==
    \/ BatchExecute
    \/ ExecuteReturningCount
    \/ Load
    \/ IterNext
    \/ DropCursor
    \/ ImmediateTransaction
    \/ ExclusiveTransaction
    \/ ClosureReturn
    \/ DropConnection

Spec == Init /\ [][Next]_vars

(***************************************************************************)
(* A guest that runs its statements with one set of values and another,    *)
(* and with values that do not serialize.                                  *)
(***************************************************************************)
AnyParams == ParamSets \cup {Unserializable}

ExecuteWithParams == ExecuteReturningCountWith(AnyParams)

LoadWithParams == LoadWith(AnyParams)

NextStatements ==
    \/ ExecuteWithParams
    \/ LoadWithParams
    \/ IterNext
    \/ DropCursor

SpecStatements == Init /\ [][NextStatements]_vars

(***************************************************************************)
(* A guest that reads table t with a cursor, drops the cursor and reads    *)
(* the table again.  The host steps the select through the rows of the     *)
(* table in insertion order, and a reset puts it before the first row.     *)
(***************************************************************************)
RowValues == {<<Tagged("Int", <<1>>)>>, <<Tagged("Int", <<2>>)>>}
Tables == UNION {[1..n -> RowValues] : n \in 0..MaxRows}

InitTable ==
    /\ cursor = <<>>
    /\ frames = <<>>
    /\ trace = <<>>
    /\ panicked = FALSE
    /\ conn = establish(":memory:", 0).conn
    /\ ret = Ret("establish", ":memory:", "Ok", NoErr, 0, FALSE, NoErr)
    /\ opened = <<Opened(conn, 0)>>
    /\ \E t \in Tables : host = [NoHost EXCEPT !.rows = t]
    /\ row = NoRow
    /\ field = NoField
    /\ collector = NoCollector

TableLoad == LoadQueries({QAll}, {"A"})

\* next, with the step answered from the table: a row while the select has
\* rows left, no more rows after the last.  The iterator is not called again
\* once it has returned None.
TableNext ==
    /\ conn.alive /\ ~panicked /\ cursor # <<>>
    /\ ~(ret.op = "next" /\ ret.res = "None")
    /\ LET more == host.pos < Len(host.rows)
           res == IF more THEN "ROW" ELSE "DONE"
       IN
       \E p1 \in Ptrs, p2 \in Ptrs, l \in Lens :
         LET b1 == [ptr |-> p1, len |-> l, ok |-> TRUE, code |-> "None",
                    message |-> "None",
                    payload |-> IF more THEN host.rows[host.pos + 1] ELSE <<>>]
             b2 == [b1 EXCEPT !.ptr = p2, !.payload = <<"id">>]
             r == next(cursor[1], conn.connection_id, res, b1, b2)
         IN
         /\ trace' = r.events
         /\ host' = [HostRun(host, r.events) EXCEPT
                       !.pos = @ + Cardinality({i \in 1..Len(r.events) :
                                    /\ r.events[i].op = "sqlite3_step"
                                    /\ r.events[i].arg = "ROW"})]
         /\ cursor' = <<[cursor[1] EXCEPT
                          !.is_first = r.is_first,
                          !.names = @ + Calls(r.events, "column_names")]>>
         /\ ret' = [Ret("next", "", r.res, r.err, Depth, FALSE, NoErr)
                      EXCEPT !.first = r.first]
         /\ panicked' = r.panic
         /\ row' = IF r.row = <<>> THEN NoRow ELSE r.row[1]
    /\ UNCHANGED <<conn, frames, opened, field, collector>>

TableDrop ==
    /\ conn.alive /\ ~panicked /\ cursor # <<>>
    /\ LET ev == StatementUse_drop(cursor[1].statement_id, cursor[1].cached) IN
         /\ trace' = ev
         /\ host' = [HostRun(host, ev) EXCEPT
                       !.pos = IF Calls(ev, "statement_reset") > 0 THEN 0
                               ELSE @,
                       !.again = TRUE]
    /\ cursor' = <<>>
    /\ ret' = Ret("drop_cursor", "", "Ok", NoErr, Depth, FALSE, NoErr)
    /\ row' = NoRow
    /\ UNCHANGED <<conn, frames, panicked, opened, field, collector>>

NextTable == TableLoad \/ TableNext \/ TableDrop

SpecTable == InitTable /\ [][NextTable]_vars

(***************************************************************************)
(* A guest that opens several connections and runs statements on them.     *)
(***************************************************************************)
Idle ==
    /\ cursor = <<>>
    /\ frames = <<>>
    /\ host = NoHost
    /\ trace = <<>>
    /\ panicked = FALSE

InitOpen ==
    /\ Idle
    /\ conn = NoConnection
    /\ ret = Ret("", "", "Ok", NoErr, 0, FALSE, NoErr)
    /\ opened = <<>>
    /\ row = NoRow
    /\ field = NoField
    /\ collector = NoCollector

\* The host assigns an identifier no open connection has.
Establish ==
    /\ Len(opened) < MaxConn
    /\ \E database_url \in DatabaseUrls :
       \E assigned \in HostIds \ {opened[k].assigned : k \in DOMAIN opened} :
         LET r == establish(database_url, assigned) IN
         /\ conn' = r.conn
         /\ trace' = r.events
         /\ ret' = Ret("establish", database_url, Result(r.ok), r.err, 0,
                       FALSE, NoErr)
         /\ opened' = [k \in 1..(Len(opened) + 1) |->
                          IF k <= Len(opened)
                          THEN [opened[k] EXCEPT !.used = FALSE]
                          ELSE Opened(r.conn, assigned)]
    /\ UNCHANGED <<cursor, frames, host, panicked, row, field, collector>>

\* batch_execute on one of the guest's connections.
BatchExecuteOn ==
    /\ \E k \in DOMAIN opened, status \in Statuses, text \in BatchTexts :
       \E b \in ReplyIf(status # 0) :
         LET r == exec(opened[k].connection_id, text, status, b) IN
         /\ trace' = r.events
         /\ host' = HostRun(host, r.events)
         /\ ret' = Ret("batch_execute", text, Result(r.ok), r.err, 0, FALSE,
                       NoErr)
         /\ opened' = [j \in DOMAIN opened |->
                          [opened[j] EXCEPT !.used = (j = k)]]
    /\ UNCHANGED <<conn, cursor, frames, panicked, row, field, collector>>

NextOpen == Establish \/ BatchExecuteOn

SpecOpen == InitOpen /\ [][NextOpen]_vars

(***************************************************************************)
(* A connection whose statements fail with every error report the host can *)
(* give.                                                                   *)
(***************************************************************************)
BatchExecuteReport ==
    /\ Ready
    /\ \E text \in BatchTexts, b \in ErrorReplies :
         LET r == exec(conn.connection_id, text, 1, b) IN
         /\ trace' = r.events
         /\ host' = HostRun(host, r.events)
         /\ ret' = Ret("batch_execute", text, Result(r.ok), r.err, Depth,
                       FALSE, NoErr)
    /\ UNCHANGED <<conn, cursor, frames, panicked, aux>>

NextErrors == BatchExecuteReport \/ ExecuteReturningCount

SpecErrors == Init /\ [][NextErrors]_vars

(***************************************************************************)
(* A row a cursor yielded, and the fields read from it.                    *)
(***************************************************************************)
LookupNames == ColumnNames \cup {"c"}

\* What a caller sees of a field.
Observed(got) ==
    IF got = <<>> THEN <<>>
    ELSE <<[inner_field |-> got[1].inner_field,
            field_name |-> field_name(got[1]),
            is_null |-> is_null(got[1]),
            value |-> value(got[1])]>>

\* read_row and column_names answer for the same statement: as many names as
\* values.
InitRow ==
    /\ Idle
    /\ conn = establish(":memory:", 0).conn
    /\ ret = Ret("next", "", "Some(Ok)", NoErr, 0, FALSE, NoErr)
    /\ opened = <<Opened(conn, 0)>>
    /\ \E n \in 0..MaxCols :
       \E inner_row \in [1..n -> SqliteValues] :
       \E field_names \in [1..n -> ColumnNames] :
         row = [inner_row |-> inner_row, field_names |-> field_names]
    /\ field = NoField
    /\ collector = NoCollector

GetIndex ==
    /\ \E i \in 0..MaxCols :
         field' = [by |-> "index", idx |-> i, name |-> "",
                   got |-> Observed(get(row, idx_usize(row, i)))]
    /\ UNCHANGED <<conn, cursor, frames, host, trace, ret, panicked, opened,
                   row, collector>>

GetName ==
    /\ \E name \in LookupNames :
         field' = [by |-> "name", idx |-> 0, name |-> name,
                   got |-> Observed(get(row, idx_str(row, name)))]
    /\ UNCHANGED <<conn, cursor, frames, host, trace, ret, panicked, opened,
                   row, collector>>

NextRow == GetIndex \/ GetName

SpecRow == InitRow /\ [][NextRow]_vars

(***************************************************************************)
(* A bind collector, and the values pushed into it.                        *)
(***************************************************************************)
IsNulls == {"Yes", "No"}

InitBind ==
    /\ Idle
    /\ conn = establish(":memory:", 0).conn
    /\ ret = Ret("establish", ":memory:", "Ok", NoErr, 0, FALSE, NoErr)
    /\ opened = <<Opened(conn, 0)>>
    /\ row = NoRow
    /\ field = NoField
    /\ collector = NoCollector

PushBoundValue ==
    /\ ~collector.bound
    /\ Len(collector.binds) < MaxBinds
    /\ \E written \in BindValues, isNull \in IsNulls, ok \in BOOLEAN,
          metadata \in SqliteTypes :
         LET r == push_bound_value(collector.binds, written, isNull, ok,
                                   metadata) IN
         collector' = [binds |-> r.binds, bound |-> FALSE,
                       call |-> [op |-> "push_bound_value",
                                 written |-> written, is_null |-> isNull,
                                 out |-> r.out]]
    /\ UNCHANGED <<conn, cursor, frames, host, trace, ret, panicked, opened,
                   row, field>>

FromOption ==
    /\ \E o \in {<<>>} \cup {<<v>> : v \in BindValues \ {Null}} :
         collector' = [collector EXCEPT
                         !.call = [op |-> "from_option",
                                   written |-> o,
                                   is_null |-> "", out |-> from_option(o)]]
    /\ UNCHANGED <<conn, cursor, frames, host, trace, ret, panicked, opened,
                   row, field>>

Collected == [k \in 1..Len(collector.binds) |-> collector.binds[k].value]

\* The values the collector holds are bound to a statement, in the order
\* they were pushed.
BindBuffers ==
    /\ ~collector.bound
    /\ collector.binds # <<>>
    /\ trace' = BindFrom(1, 1, Collected)
    /\ collector' = [collector EXCEPT !.bound = TRUE]
    /\ UNCHANGED <<conn, cursor, frames, host, ret, panicked, opened, row,
                   field>>

\* SqliteBindCollector::new, for the next query.
NewCollector ==
    /\ collector.bound
    /\ trace' = <<>>
    /\ collector' = NoCollector
    /\ UNCHANGED <<conn, cursor, frames, host, ret, panicked, opened, row,
                   field>>

NextBind == PushBoundValue \/ FromOption \/ BindBuffers \/ NewCollector

SpecBind == InitBind /\ [][NextBind]_vars

(***************************************************************************)
(* Properties.                                                             *)
(***************************************************************************)
(***************************************************************************)
(* sqlite/types.rs: a value is serialized, bound, stored, read back and     *)
(* deserialized.  A Rust value is tagged with its type; its payload is one  *)
(* word for an integer, a bool (0 or 1) or a double (the word stands for    *)
(* its bits), two 32-bit words for an i64, the bytes for a str or a [u8].   *)
(***************************************************************************)
\* The signed value of a pattern of w bits.
signed(bits, w) == IF bits >= 2 ^ (w - 1) THEN bits - 2 ^ w ELSE bits

\* Mutant: the low 16 bits are read as unsigned.
as_i16_unsigned(x) == x % (2 ^ 16)

\* Mutant: a value out of the range of i16 is clamped to the nearest bound.
as_i16_saturating(x) ==
    IF x > 32767 THEN 32767 ELSE IF x < -32768 THEN -32768 ELSE x

\* `x as i16` of an i32: the low 16 bits.
as_i16(x) == signed(x % (2 ^ 16), 16)

\* `x as i32` of an i16: the 16 bits, sign-extended.
i16_as_i32(x) == signed(x % (2 ^ 16), 16)

RustValues ==
    {Tagged("i16", <<x>>) : x \in {-32768, -129, -1, 0, 1, 255, 256, 32767}}
      \cup {Tagged("i32", <<x>>) :
               x \in {-2147483647 - 1, -32769, -1, 0, 32768, 65536,
                      2147483647}}
      \cup {Tagged("i64", <<hi, lo>>) :
               hi \in {-2147483647 - 1, -1, 0, 1, 2147483647}, lo \in {-1, 0}}
      \cup {Tagged("bool", <<x>>) : x \in {0, 1}}
      \cup {Tagged("f64", <<x>>) : x \in {-3, 0, 15}}
      \cup {Tagged("str", x) : x \in {<<>>, <<120>>, <<104, 105>>}}
      \cup {Tagged("[u8]", x) : x \in {<<>>, <<0>>, <<255, 0>>}}

\* impl ToSql for bool, str, [u8], i16, i32, i64, f64: what set_value leaves
\* in the output.
to_sql(self) ==
    CASE self.tag = "bool" -> I32(IF self.v = <<1>> THEN 1 ELSE 0)
      [] self.tag = "str" -> BorrowedString(self.v)
      [] self.tag = "[u8]" -> BorrowedBinary(self.v)
      [] self.tag = "i16" -> I32(i16_as_i32(self.v[1]))
      [] self.tag = "i32" -> I32(self.v[1])
      [] self.tag = "i64" -> I64(self.v)
      [] self.tag = "f64" -> F64(self.v[1])

\* Sqlite::metadata of the SQL type the value is bound as.
metadata(ty) ==
    CASE ty = "bool" -> "Integer"
      [] ty = "str" -> "Text"
      [] ty = "[u8]" -> "Binary"
      [] ty = "i16" -> "SmallInt"
      [] ty = "i32" -> "Integer"
      [] ty = "i64" -> "Long"
      [] ty = "f64" -> "Double"

\* The host keeps the bound value and a select gives it back as the variant
\* it was bound as.
SqliteValueOf(wire) == Tagged(wire.tag, wire.v)

\* lunatic_sqlite_api::SqliteValue::read_*: the payload of the variant asked
\* for; ok is FALSE when the value is of another variant.
read(sqlite_value, tag) == [ok |-> sqlite_value.tag = tag, v |-> sqlite_value.v]
read_integer(sqlite_value) == read(sqlite_value, "Int")
read_long(sqlite_value) == read(sqlite_value, "Int64")
read_double(sqlite_value) == read(sqlite_value, "Double")
read_text_string(sqlite_value) == read(sqlite_value, "Text")
read_blob(sqlite_value) == read(sqlite_value, "Blob")

\* impl FromSql for String, *const [u8], i16, i32, bool, i64, f64.
from_sql(ty, sqlite_value) ==
    CASE ty = "str" -> read_text_string(sqlite_value)
      [] ty = "[u8]" -> read_blob(sqlite_value)
      [] ty = "i16" ->
            LET r == read_integer(sqlite_value) IN
            [ok |-> r.ok /\ Len(r.v) = 1, v |-> <<as_i16(Head(r.v))>>]
      [] ty = "i32" -> read_integer(sqlite_value)
      [] ty = "bool" ->
            LET r == read_integer(sqlite_value) IN
            [ok |-> r.ok /\ Len(r.v) = 1,
             v |-> <<IF Head(r.v) # 0 THEN 1 ELSE 0>>]
      [] ty = "i64" -> read_long(sqlite_value)
      [] ty = "f64" -> read_double(sqlite_value)

\* A value is serialized into a new collector.
Serialize ==
    /\ \E self \in RustValues :
         LET r == push_bound_value(<<>>, to_sql(self), "No", TRUE,
                                   metadata(self.tag)) IN
         collector' = [binds |-> r.binds, bound |-> FALSE,
                       call |-> [op |-> "to_sql", written |-> self,
                                 is_null |-> "No", out |-> r.out]]
    /\ trace' = <<>>
    /\ row' = NoRow
    /\ field' = NoField
    /\ UNCHANGED <<conn, cursor, frames, host, ret, panicked, opened>>

\* The statement is run and a select of the stored value yields its row.
ReadBack ==
    /\ collector.bound
    /\ row = NoRow
    /\ row' = [inner_row |-> <<SqliteValueOf(trace[1].value)>>,
               field_names |-> <<"a">>]
    /\ UNCHANGED <<conn, cursor, frames, host, trace, ret, panicked, opened,
                   field, collector>>

\* The field is deserialized as the type that was written.
FromSql ==
    /\ row # NoRow
    /\ field = NoField
    /\ LET ty == collector.call.written.tag IN
         field' = [by |-> "from_sql", idx |-> 0, name |-> ty,
                   got |-> <<from_sql(ty, row.inner_row[1])>>]
    /\ UNCHANGED <<conn, cursor, frames, host, trace, ret, panicked, opened,
                   row, collector>>

NextTypes == Serialize \/ BindBuffers \/ ReadBack \/ FromSql

SpecTypes == InitBind /\ [][NextTypes]_vars

(***************************************************************************)
(* A column that holds a 32-bit integer, whoever wrote it, read as an i16,  *)
(* as a bool and as an i32.                                                 *)
(***************************************************************************)
StoredIntegers ==
    {-2147483647 - 1, -2147483647, -65537, -65536, -65535, -32770, -32769,
     -32768, -32767, -257, -256, -255, -2, -1, 0, 1, 2, 255, 256, 257, 32766,
     32767, 32768, 32769, 65535, 65536, 65537, 98304, 2147483646, 2147483647}
IntegerTypes == {"i16", "bool", "i32"}

\* A select yields a row whose column holds a stored integer.
Select ==
    /\ \E x \in StoredIntegers :
         row' = [inner_row |-> <<Tagged("Int", <<x>>)>>,
                 field_names |-> <<"a">>]
    /\ field' = NoField
    /\ UNCHANGED <<conn, cursor, frames, host, trace, ret, panicked, opened,
                   collector>>

\* The column is deserialized as one of the integer types.
FromSqlInteger ==
    /\ row # NoRow
    /\ \E ty \in IntegerTypes :
         field' = [by |-> "from_sql", idx |-> 0, name |-> ty,
                   got |-> <<from_sql(ty, row.inner_row[1])>>]
    /\ UNCHANGED <<conn, cursor, frames, host, trace, ret, panicked, opened,
                   row, collector>>

NextIntegers == Select \/ FromSqlInteger

SpecIntegers == InitBind /\ [][NextIntegers]_vars

Stmts == 1..Len(host.stmts)
Events == 1..Len(trace)
CachedIds == {conn.statement_cache[t] : t \in DOMAIN conn.statement_cache}
StatementCacheLen == Cardinality(DOMAIN conn.statement_cache)
UnsafeSql == {sql(q) : q \in {x \in Queries : ~is_safe_to_cache_prepared(x)}}
QueryOps == {"execute_returning_count", "load"}
TransactionOps == {"immediate_transaction", "exclusive_transaction"}
Prepares == {i \in Events : trace[i].op = "query_prepare"}
Executes(text) ==
    {i \in Events : trace[i].op = "execute" /\ trace[i].arg = text}

\* C1: every (pointer, length) a host call returns is rebuilt into an owning
\* buffer by unroll_vec exactly once: the call that returned it is followed at
\* once by one unroll_vec with that pointer and that length, no unroll_vec is
\* made of anything else, and no returned buffer is left unclaimed.
C1_BuffersReconstructedOnce ==
    /\ host.mem.pending = {}
    /\ ~host.mem.bad
    /\ \A i \in Events :
         /\ trace[i].op \in BufferOps =>
              /\ i + 1 \in Events
              /\ trace[i + 1].op = "unroll_vec"
              /\ trace[i + 1].out = trace[i].out
              /\ trace[i + 1].len = trace[i].len
         /\ trace[i].op = "unroll_vec" =>
              /\ i - 1 \in Events
              /\ trace[i - 1].op \in BufferOps

C1_Witness ==
    /\ \E i \in Events : trace[i].op = "read_row"
    /\ \E i \in Events : trace[i].op = "column_names"
    /\ Cardinality({i \in Events : trace[i].op = "unroll_vec"}) = 2

\* C2: no bind_value, statement_reset, sqlite3_step, read_row or column_names
\* call is ever issued for a statement id after sqlite3_finalize was issued
\* for it.
C2_NoUseAfterFinalize == \A id \in Stmts : ~host.stmts[id].afterFinal

C2_Witness ==
    \E id \in Stmts :
      /\ host.stmts[id].state = "Finalized"
      /\ \A i \in Events : trace[i].id # id
      /\ \E i \in Events : trace[i].op = "sqlite3_step"
      /\ \E i \in Events : trace[i].op = "read_row"

\* C3: every statement handle a prepare returned is finalized at most once at
\* any time and exactly once by the time the connection has been dropped; a
\* cached statement is finalized by the drop of the connection, a non-cached
\* one when the use that owns it has ended.
C3_FinalizedExactlyOnce ==
    \A id \in Stmts :
      LET s == host.stmts[id]
          inUse == cursor # <<>> /\ cursor[1].statement_id = id
      IN  /\ s.finalized <= 1
          /\ ~conn.alive => s.finalized = 1
          /\ (id \notin CachedIds /\ ~inUse) => s.finalized = 1

C3_Witness ==
    /\ ~conn.alive
    /\ \E i \in Events : trace[i].op = "sqlite3_finalize"
    /\ \E id \in Stmts : \A i \in Events : trace[i].id # id

\* C4: a query that is not safe to cache never enters the statement cache:
\* the cache holds no entry of its text, a connection that has prepared only
\* such queries has a cache of length 0, each execution of such a query starts
\* with its own query_prepare, and the handle a completed execution prepared
\* is finalized by that execution.
C4_UnsafeQueriesNotCached ==
    /\ DOMAIN conn.statement_cache \cap UnsafeSql = {}
    /\ (\A id \in Stmts : host.stmts[id].sql \in UnsafeSql)
          => StatementCacheLen = 0
    /\ (ret.op \in QueryOps /\ ~is_safe_to_cache_prepared(ret.q)) =>
          /\ trace # <<>>
          /\ trace[1].op = "query_prepare"
          /\ trace[1].arg = sql(ret.q)
          /\ (ret.op = "execute_returning_count" /\ trace[1].out # 0) =>
                Cardinality({i \in Events : /\ trace[i].op = "sqlite3_finalize"
                                            /\ trace[i].id = trace[1].out}) = 1

C4_Witness ==
    /\ ret.op = "execute_returning_count"
    /\ ret.res = "Ok"
    /\ \E q \in Queries :
         /\ ~is_safe_to_cache_prepared(q)
         /\ ret.q = q
         /\ Cardinality({id \in Stmts : host.stmts[id].sql = sql(q)}) = 2
    /\ StatementCacheLen = 0

\* C5: after a successful execution of the query whose IN clause takes a
\* sub-select, its statement is in the cache; on a connection that prepared
\* nothing else the cache length is 1.
C5_SubselectCached ==
    (ret.op \in QueryOps /\ ret.q = "QSub" /\ ret.res = "Ok") =>
       /\ sql("QSub") \in DOMAIN conn.statement_cache
       /\ (\A id \in Stmts : host.stmts[id].sql = sql("QSub"))
             => StatementCacheLen = 1

C5_Witness ==
    /\ ret.op = "execute_returning_count"
    /\ ret.q = "QSub"
    /\ ret.res = "Ok"
    /\ Len(host.stmts) = 1
    /\ StatementCacheLen = 1

C7_ResetBeforeRebind == \A id \in Stmts : ~host.stmts[id].rebind

C7_Witness ==
    /\ ret.op = "load"
    /\ ret.q = "QSub"
    /\ ret.res = "Ok"
    /\ Prepares = {}
    /\ \E i \in Events : trace[i].op = "bind_value"
    /\ host.stmts[cursor[1].statement_id].state = "Bound"

\* C8: when the closure of a transaction returns an error, the transaction
\* method executes ROLLBACK before it returns and executes no COMMIT.
C8_RollbackOnClosureError ==
    (ret.op \in TransactionOps /\ ret.ranClosure /\ ret.res # "Running"
       /\ ret.closure # NoErr) =>
       /\ Executes("ROLLBACK") # {}
       /\ Executes("COMMIT") = {}

C8_Witness ==
    /\ ret.op = "immediate_transaction"
    /\ ret.ranClosure
    /\ ret.closure = Err("UserError", "closure")
    /\ ret.res = "Err"
    /\ Executes("ROLLBACK") # {}

\* C9 as stated: when the closure returns an error e, the transaction method
\* returns that error e, whatever the outcome of the ROLLBACK.
C9_Original ==
    (ret.op \in TransactionOps /\ ret.ranClosure /\ ret.res # "Running"
       /\ ret.closure # NoErr) =>
       /\ ret.res = "Err"
       /\ ret.err = ret.closure

\* C9 as amended: when the closure returns an error e, the transaction method
\* returns an error: e when the ROLLBACK succeeded, and the error of the
\* ROLLBACK (the connection's last error) when the ROLLBACK failed.
C9_ErrorAfterRollback ==
    (ret.op \in TransactionOps /\ ret.ranClosure /\ ret.res # "Running"
       /\ ret.closure # NoErr) =>
       /\ ret.res = "Err"
       /\ \A i \in Executes("ROLLBACK") :
            IF trace[i].out = 0 THEN ret.err = ret.closure
            ELSE ret.err.kind = "DatabaseError" /\ ret.err.src = "ROLLBACK"
       /\ Executes("ROLLBACK") # {}

C9_Witness ==
    /\ ret.op = "exclusive_transaction"
    /\ ret.ranClosure
    /\ ret.closure = Err("UserError", "closure")
    /\ ret.err.kind = "DatabaseError"
    /\ ret.err.src = "ROLLBACK"
    /\ \E i \in Executes("ROLLBACK") : trace[i].out # 0

\* C10: immediate_transaction and exclusive_transaction called while a
\* transaction is open return an error without running the closure, execute
\* nothing (no BEGIN, COMMIT or ROLLBACK) and leave the nesting depth as it was.
C10_NestedTransactionRejected ==
    (ret.op \in TransactionOps /\ ret.entryDepth > 0) =>
       /\ ret.res = "Err"
       /\ ret.err = Err("AlreadyInTransaction", "")
       /\ ~ret.ranClosure
       /\ trace = <<>>
       /\ Depth = ret.entryDepth
       /\ Len(frames) = 1

C10_Witness ==
    /\ ret.op = "exclusive_transaction"
    /\ ret.entryDepth = 1
    /\ ret.res = "Err"
    /\ frames # <<>>
    /\ frames[1].op = "immediate_transaction"

Terminators == Executes("COMMIT") \cup Executes("ROLLBACK")
Returned ==
    ret.op \in TransactionOps /\ ret.ranClosure /\ ret.res # "Running"

ConnectionOps == {"execute", "query_prepare", "last_error", "sqlite3_changes"}

\* C12 as stated: the identifier a connection stores is the one the host
\* assigned to it in open, every execute, query_prepare, last_error and
\* sqlite3_changes made for the connection carries that identifier, and no two
\* connections of the guest store the same identifier.
C12_Original ==
    /\ \A k \in DOMAIN opened :
         /\ opened[k].connection_id = opened[k].assigned
         /\ opened[k].used =>
               \A i \in Events :
                  trace[i].op \in ConnectionOps
                     => trace[i].id = opened[k].assigned
    /\ \A j \in DOMAIN opened, k \in DOMAIN opened :
         j # k => opened[j].connection_id # opened[k].connection_id

\* C13: establish returns Ok for every database_url, making the open call
\* and no other (no path check, no last_error); the connection it returns
\* has an empty statement cache and no open transaction; an error is what
\* a later operation returns, never establish.
C13_EstablishAlwaysOk ==
    /\ ret.op = "establish" =>
         /\ ret.res = "Ok"
         /\ ret.err = NoErr
         /\ conn.alive
         /\ Len(trace) = 1
         /\ trace[1].op = "open"
         /\ trace[1].arg = ret.q
         /\ StatementCacheLen = 0
         /\ conn.transaction_state = TsValid(0)
         /\ host.stmts = <<>>
    /\ ret.res \in {"Err", "Some(Err)"} => ret.op # "establish"

C13_Witness ==
    /\ ret.op = "establish"
    /\ ret.q = ""
    /\ ret.res = "Ok"
    /\ conn.alive

\* C14: batch_execute makes one execute call; it returns Ok exactly when the
\* status of that call is 0, and then makes no last_error call; for any other
\* status it makes exactly one last_error call, with the connection's
\* identifier, and returns the error made of its report.
C14_ExecStatus ==
    ret.op = "batch_execute" =>
       /\ Calls(trace, "execute") = 1
       /\ trace[1].op = "execute"
       /\ trace[1].id = conn.connection_id
       /\ ret.res = "Ok" <=> trace[1].out = 0
       /\ ret.res \in {"Ok", "Err"}
       /\ ret.res = "Ok" => (Calls(trace, "last_error") = 0 /\ ret.err = NoErr)
       /\ ret.res = "Err" =>
             /\ Calls(trace, "last_error") = 1
             /\ trace[2].op = "last_error"
             /\ trace[2].id = conn.connection_id
             /\ ret.err.kind = "DatabaseError"
             /\ trace[2].arg = "SQLITE_CONSTRAINT_UNIQUE"
                   => /\ ret.err.dbkind = "UniqueViolation"
                      /\ ret.err.message = trace[2].msg

C14_Witness ==
    /\ ret.op = "batch_execute"
    /\ ret.res = "Err"
    /\ Calls(trace, "last_error") = 1
    /\ ret.err.dbkind = "UniqueViolation"

\* C15: the error made of a last_error report is a DatabaseError whose kind
\* is UniqueViolation for the codes UNIQUE and PRIMARYKEY, ForeignKeyViolation
\* for FOREIGNKEY, NotNullViolation for NOTNULL, CheckViolation for CHECK and
\* Unknown for any other code, with the report's message, or "sqlite error"
\* when it has none; a report without code, or one that does not decode,
\* gives Unknown with the message "unknown error code".
C15_LastErrorMapping ==
    \A i \in Events :
       trace[i].op = "last_error" =>
          LET code == trace[i].arg IN
          /\ ret.res = "Err"
          /\ ret.err.kind = "DatabaseError"
          /\ ret.err.dbkind =
                CASE code = "SQLITE_CONSTRAINT_UNIQUE" -> "UniqueViolation"
                  [] code = "SQLITE_CONSTRAINT_PRIMARYKEY" -> "UniqueViolation"
                  [] code = "SQLITE_CONSTRAINT_FOREIGNKEY" -> "ForeignKeyViolation"
                  [] code = "SQLITE_CONSTRAINT_NOTNULL" -> "NotNullViolation"
                  [] code = "SQLITE_CONSTRAINT_CHECK" -> "CheckViolation"
                  [] OTHER -> "Unknown"
          /\ ret.err.message =
                IF code \in {"None", "undecodable"} THEN "unknown error code"
                ELSE IF trace[i].msg = "None" THEN "sqlite error"
                ELSE trace[i].msg

C15_Witness ==
    /\ ret.op = "batch_execute"
    /\ ret.q = InsertSql
    /\ \E i \in Events : /\ trace[i].op = "last_error"
                         /\ trace[i].arg = "SQLITE_CONSTRAINT_UNIQUE"
    /\ ret.err.dbkind = "UniqueViolation"
    /\ ret.err.message = "constraint failed"

\* C16 as stated: when the bytes the host returns for last_error, read_row or
\* column_names do not decode, the operation returns a DeserializationError,
\* never a DatabaseError.
C16_Original ==
    \A i \in Events :
       (trace[i].op \in BufferOps /\ trace[i].arg = "undecodable") =>
          /\ ret.res \in {"Err", "Some(Err)"}
          /\ ret.err.kind = "DeserializationError"

\* C17 as stated: a field of a NULL column reports is_null() and has no
\* value(); a field of another column does not report is_null() and has the
\* column's value.
C17_Original ==
    field.got # <<>> =>
       LET f == field.got[1] IN
       /\ f.inner_field = "Null" => (f.is_null /\ f.value = <<>>)
       /\ f.inner_field # "Null" => (~f.is_null /\ f.value = <<f.inner_field>>)

\* C18: a bound value pushed after the serializer returned IsNull::Yes is
\* Null whatever the serializer wrote; after IsNull::No it is what the
\* serializer wrote; nothing is pushed when the serializer fails; the
\* conversion of Option::None is Null, that of Some(v) is v's.
C18_NullBinds ==
    /\ collector.call.op = "push_bound_value" =>
         /\ collector.call.out = "Ok" =>
               /\ collector.binds # <<>>
               /\ collector.binds[Len(collector.binds)].value =
                     IF collector.call.is_null = "Yes" THEN Null
                     ELSE collector.call.written
         /\ collector.call.out \in {"Ok", "SerializationError"}
    /\ collector.call.op = "from_option" =>
         collector.call.out =
            IF collector.call.written = <<>> THEN Null
            ELSE collector.call.written[1]

C18_Witness ==
    /\ collector.call.op = "push_bound_value"
    /\ collector.call.is_null = "Yes"
    /\ collector.call.written = I32(1)
    /\ collector.call.out = "Ok"
    /\ collector.binds[Len(collector.binds)].value = Null

\* C19 as stated: a step of a cursor calls read_row once when the statement
\* has a row and not otherwise, and over the life of the cursor column_names
\* is called at most once.
C19_Original ==
    /\ ret.op = "next" =>
         Calls(trace, "read_row") =
            IF \E i \in Events : /\ trace[i].op = "sqlite3_step"
                                 /\ trace[i].arg = "ROW"
            THEN 1 ELSE 0
    /\ cursor # <<>> => cursor[1].names <= 1

\* C20: get by index gives a field exactly when the index is below
\* field_count(); get by name gives the field of the lowest index whose
\* column has that name, and nothing when no column has it; the field of
\* index i has the value and the name of column i.
C20_RowGet ==
    LET names == row.field_names
        ps == {i \in DOMAIN names : names[i] = field.name}
    IN  /\ field.by = "index" =>
              /\ field.got # <<>> <=> field.idx < Len(row.inner_row)
              /\ field.got # <<>> =>
                    /\ field.got[1].inner_field = row.inner_row[field.idx + 1]
                    /\ field.got[1].field_name = <<names[field.idx + 1]>>
        /\ field.by = "name" =>
              /\ ps = {} => field.got = <<>>
              /\ ps # {} =>
                    /\ field.got # <<>>
                    /\ \E i \in ps :
                          /\ \A j \in ps : i <= j
                          /\ field.got[1].inner_field = row.inner_row[i]
                          /\ field.got[1].field_name = <<names[i]>>

C20_Witness ==
    /\ field.by = "name"
    /\ field.name = "a"
    /\ row.field_names = <<"a", "a">>
    /\ row.inner_row = <<"Integer(7)", "Text(x)">>
    /\ field.got # <<>>
    /\ field.got[1].inner_field = "Integer(7)"

InUse == {"Bound", "Stepping", "Exhausted"}

\* C25: a connection has at most one cursor: while a cursor lives, the only
\* operation on the connection is that cursor's next, every statement call
\* made is for the cursor's statement, and no statement other than the
\* cursor's is bound or stepped and not yet reset.
C25_OneCursor ==
    /\ Len(cursor) <= 1
    /\ \A id \in Stmts :
         host.stmts[id].state \in InUse =>
            /\ cursor # <<>>
            /\ cursor[1].statement_id = id
    /\ cursor # <<>> =>
         /\ ret.op \in {"load", "next"}
         /\ \A i \in Events :
              trace[i].op \in StatementOps
                 => trace[i].id = cursor[1].statement_id

C25_Witness ==
    /\ cursor # <<>>
    /\ ret.op = "next"
    /\ ret.res = "Some(Ok)"
    /\ host.stmts[cursor[1].statement_id].state = "Stepping"
    /\ Len(host.stmts) = MaxStmts

\* C29 as stated: when the bytes of the row, or of the column-name list, do
\* not decode during next, next returns Some(Err(DeserializationError)), the
\* guest goes on, and the call that failed is made once.
C29_Original ==
    \A i \in Events :
       (ret.op = "next" /\ trace[i].op \in {"read_row", "column_names"}
          /\ trace[i].arg = "undecodable") =>
          /\ ret.res = "Some(Err)"
          /\ ret.err.kind = "DeserializationError"
          /\ ~panicked
          /\ Calls(trace, trace[i].op) = 1

\* C30: a call of next makes exactly one sqlite3_step, first; it calls
\* read_row exactly when the step reported a row, and column_names at most
\* once and only then; it returns None when the step reported no more rows
\* and Some(Err) when the step failed.
C30_OneStepPerNext ==
    ret.op = "next" =>
       /\ Calls(trace, "sqlite3_step") = 1
       /\ trace[1].op = "sqlite3_step"
       /\ Calls(trace, "read_row") = IF trace[1].arg = "ROW" THEN 1 ELSE 0
       /\ Calls(trace, "column_names") <= Calls(trace, "read_row")
       /\ trace[1].arg = "DONE" => (ret.res = "None" /\ Len(trace) = 1)
       /\ trace[1].arg = "ERROR" =>
             /\ ret.res = "Some(Err)"
             /\ ret.err.kind = "DatabaseError"
       /\ ret.res = "None" => trace[1].arg = "DONE"

C30_Witness ==
    /\ ret.op = "next"
    /\ ret.res = "None"
    /\ Calls(trace, "sqlite3_step") = 1
    /\ host.stmts[cursor[1].statement_id].state = "Exhausted"

\* C21 as stated: once next has returned None, a further call of next returns
\* None again and does not step the statement.
C21_Original ==
    [][(ret.op = "next" /\ ret.res = "None" /\ ret'.op = "next") =>
          /\ ret'.res = "None"
          /\ Calls(trace', "sqlite3_step") = 0]_vars

Binds_(es) == {i \in 1..Len(es) : es[i].op = "bind_value"}
StepsOf(es) == {i \in 1..Len(es) : es[i].op = "sqlite3_step"}
Bound(q, params) ==
    [k \in 1..binds(q) |-> to_ffi_struct(k, Params(params)[k]).value]

\* C23: a statement that is used again holds the values of the use at hand
\* and no other: after a query has been bound with a set of values, every
\* position of its statement holds that set's value, whatever an earlier use
\* bound there, and the steps of the cursor run on exactly those values.
C23_NoResidue ==
    /\ (ret.op \in QueryOps /\ ret.res = "Ok") =>
         \A i \in Events :
            trace[i].op = "bind_value" =>
               host.stmts[trace[i].id].values = Bound(ret.q, ret.params)
    /\ cursor # <<>> =>
         LET s == host.stmts[cursor[1].statement_id] IN
         /\ DOMAIN s.values = 1..ParamCount(s.sql)
         /\ \A k \in DOMAIN s.values :
              s.values[k] = to_ffi_struct(k, Params(cursor[1].params)[k]).value

C23_Witness ==
    /\ ret.op = "next"
    /\ ret.res = "Some(Ok)"
    /\ cursor[1].params = "B"
    /\ cursor[1].cached
    /\ host.stmts[cursor[1].statement_id].replaced
    /\ host.stmts[cursor[1].statement_id].values
          = <<Tagged("Int", <<5>>), Tagged("Int", <<6>>)>>

\* C26: within a use every bind_value call comes before the first
\* sqlite3_step, no statement is bound between two steps, a statement is
\* stepped only with every parameter bound, and a query that was bound made
\* as many bind_value calls as it has parameters.
C26_BindsBeforeStep ==
    /\ \A i \in Binds_(trace), j \in StepsOf(trace) : i < j
    /\ \A id \in Stmts :
         /\ ~host.stmts[id].partial
         /\ host.stmts[id].state \in {"Stepping", "Exhausted"}
               => host.stmts[id].keys = 1..ParamCount(host.stmts[id].sql)
    /\ (ret.op \in QueryOps /\ ret.res = "Ok") =>
         Cardinality(Binds_(trace)) = binds(ret.q)
    /\ ret.op = "next" => Binds_(trace) = {}

C26_Witness ==
    /\ ret.op = "execute_returning_count"
    /\ ret.q = "QInVec"
    /\ ret.res = "Ok"
    /\ Cardinality(Binds_(trace)) = 4
    /\ Cardinality(StepsOf(trace)) = 1

PrepareFailed == \E i \in Prepares : trace[i].out = 0
StepFailed == \E i \in StepsOf(trace) : trace[i].arg = "ERROR"
Handles(es) ==
    {i \in 1..Len(es) : es[i].op \in StatementOps}

\* C28: a prepare, bind or step that fails leaves the cache sound and leaks
\* no handle.  When the prepare fails the caller gets the connection's last
\* error, the cache has no entry of the text, and no call is made on a
\* statement.  When the bind or the step fails on a statement that is not
\* cached, the statement is finalized before the call returns (or, for a
\* cursor, stays the cursor's); on a cached statement, the entry stays, not
\* finalized and ready to be bound again.  Every handle that is not
\* finalized is the cache's or the live cursor's.
C28_FailureLeavesCacheSound ==
    /\ (ret.op \in QueryOps /\ PrepareFailed) =>
         /\ ret.res = "Err"
         /\ ret.err.kind = "DatabaseError"
         /\ Calls(trace, "last_error") = 1
         /\ sql(ret.q) \notin DOMAIN conn.statement_cache
         /\ Handles(trace) = {}
         /\ cursor = <<>>
    /\ \A t \in DOMAIN conn.statement_cache :
         /\ conn.statement_cache[t] \in Stmts
         /\ host.stmts[conn.statement_cache[t]].state # "Finalized"
    /\ \A id \in Stmts :
         host.stmts[id].state # "Finalized" =>
            \/ id \in CachedIds
            \/ cursor # <<>> /\ cursor[1].statement_id = id
    /\ (ret.op \in QueryOps /\ ret.res = "Err" /\ ~PrepareFailed) =>
         /\ cursor = <<>>
         /\ ret.err.kind = "SerializationError" =>
               /\ StepsOf(trace) = {}
               /\ Binds_(trace) = {}
         /\ ret.err.kind # "SerializationError" => StepFailed
         /\ IF is_safe_to_cache_prepared(ret.q)
            THEN /\ sql(ret.q) \in DOMAIN conn.statement_cache
                 /\ host.stmts[conn.statement_cache[sql(ret.q)]].state
                       = "Prepared"
                 /\ Calls(trace, "sqlite3_finalize") = 0
            ELSE /\ Calls(trace, "sqlite3_finalize") = 1
                 /\ trace[Len(trace)].op \in {"sqlite3_finalize", "unroll_vec"}
                 /\ \A i \in Handles(trace) :
                      host.stmts[trace[i].id].finalized = 1

C28_Witness ==
    /\ ret.op = "execute_returning_count"
    /\ ret.res = "Err"
    /\ StepFailed
    /\ ret.q = "QSub"
    /\ Prepares = {}
    /\ ret.params = "B"
    /\ host.stmts[conn.statement_cache[sql(ret.q)]].state = "Prepared"

\* C27: the value pushed k-th is sent with the numeric key k: the bind_value
\* calls made for a collector are as many as the values it holds, their keys
\* are 1, 2, ..., n in that order, and the k-th carries the wire value of the
\* k-th value pushed.
C27_KeysInPushOrder ==
    collector.bound =>
       /\ \A i \in Events : trace[i].op = "bind_value"
       /\ Len(trace) = Len(collector.binds)
       /\ \A k \in Events :
            /\ trace[k].key = k
            /\ trace[k].value = to_ffi_struct(k, collector.binds[k].value).value
            /\ trace[k].len = 1

C27_Witness ==
    /\ collector.bound
    /\ Len(collector.binds) = MaxBinds
    /\ collector.binds[1].value = String(<<120>>)
    /\ collector.binds[2].value = I32(1)
    /\ trace[1].value = Tagged("Text", <<120>>)
    /\ trace[2].key = 2

\* C24: a value of type i16, i32, i64, bool, f64, str or [u8] that is
\* serialized with to_sql, bound, stored and read back with from_sql of the
\* same type is the value that was written; an i16 and a bool go over the
\* wire as a 32-bit integer.
C24_RoundTrip ==
    field.by = "from_sql" =>
       LET self == collector.call.written
           wire == trace[1].value
       IN  /\ field.got[1].ok
           /\ field.got[1].v = self.v
           /\ field.name = self.tag
           /\ self.tag \in {"i16", "bool", "i32"} =>
                 (wire.tag = "Int" /\ Len(wire.v) = 1)
           /\ self.tag = "i16" => wire.v = self.v

C24_Witness ==
    /\ field.by = "from_sql"
    /\ collector.call.written = Tagged("i16", <<-32768>>)
    /\ trace[1].value = Tagged("Int", <<-32768>>)
    /\ row.inner_row[1].tag = "Int"
    /\ field.got[1].v = <<-32768>>

\* C22: a cursor over the full select of a table of n rows yields the rows
\* in insertion order, the k-th call giving the k-th row, and None at the
\* call after the n-th; a cursor over the same statement after it was reset
\* starts at the first row again and yields the same rows.
C22_RowsInInsertionOrder ==
    /\ ret.op = "load" /\ ret.res = "Ok" =>
         (host.pos = 0 /\ cursor[1].names = 0)
    /\ ret.op = "next" =>
         /\ ret.res \in {"Some(Ok)", "None"}
         /\ ret.res = "Some(Ok)" =>
               /\ cursor[1].names \in 1..Len(host.rows)
               /\ host.pos = cursor[1].names
               /\ row.inner_row = host.rows[cursor[1].names]
         /\ ret.res = "None" =>
               /\ cursor[1].names = Len(host.rows)
               /\ host.pos = Len(host.rows)
               /\ host.stmts[cursor[1].statement_id].state = "Exhausted"

C22_Witness ==
    /\ host.again
    /\ ret.op = "next"
    /\ ret.res = "None"
    /\ Len(host.rows) = MaxRows
    /\ cursor[1].names = MaxRows
    /\ host.rows[1] # host.rows[MaxRows]


\* C31: execute_returning_count reads the host's change counter exactly when
\* it returns Ok, once, as its last call, on its own connection and after the
\* statement was prepared (or found in the cache), bound with every
\* parameter and stepped without an error; when the prepare, the bind or the
\* step fails it returns that error and makes no sqlite3_changes call.  No
\* other operation reads the counter.
C31_ChangesAfterCompletion ==
    /\ ret.op # "execute_returning_count" =>
         Calls(trace, "sqlite3_changes") = 0
    /\ ret.op = "execute_returning_count" =>
         /\ Calls(trace, "sqlite3_changes") = IF ret.res = "Ok" THEN 1 ELSE 0
         /\ ret.res = "Ok" =>
               /\ trace[Len(trace)].op = "sqlite3_changes"
               /\ trace[Len(trace)].id = conn.connection_id
               /\ ~PrepareFailed
               /\ ~StepFailed
               /\ Cardinality(StepsOf(trace)) = 1
               /\ Cardinality(Binds_(trace)) = binds(ret.q)
               /\ \A i \in Handles(trace) :
                     host.stmts[trace[i].id].sql = sql(ret.q)
         /\ ret.res = "Err" =>
               /\ PrepareFailed \/ StepFailed
                     \/ ret.err.kind = "SerializationError"
               /\ PrepareFailed =>
                     (ret.err.kind = "DatabaseError" /\ ret.err.src = sql(ret.q))
               /\ StepFailed =>
                     (ret.err.kind = "DatabaseError" /\ ret.err.src = "step")

C31_Witness ==
    /\ ret.op = "execute_returning_count"
    /\ ret.res = "Ok"
    /\ ret.q = "QSub"
    /\ Prepares = {}
    /\ trace[Len(trace)].op = "sqlite3_changes"
    /\ trace[Len(trace) - 1].op = "statement_reset"
    /\ \E i \in StepsOf(trace) : trace[i].arg = "DONE"


\* C32: every bind_value call carries a list of exactly one pair, for a
\* statement of one parameter as for one of several: a query of n parameters
\* that is bound makes n bind_value calls, and the k-th carries the one pair
\* made of the k-th value, with its key and its wire value.
C32_OnePairPerCall ==
    /\ \A i \in Binds_(trace) : trace[i].len = 1
    /\ (ret.op \in QueryOps /\ ret.res = "Ok") =>
         /\ Cardinality(Binds_(trace)) = binds(ret.q)
         /\ \A i \in Binds_(trace) :
              LET k == Cardinality({j \in Binds_(trace) : j <= i})
                  pair == to_ffi_struct(k, Params(ret.params)[k])
              IN  /\ trace[i].key = pair.key
                  /\ trace[i].value = pair.value

C32_Witness ==
    /\ ret.op = "load"
    /\ ret.res = "Ok"
    /\ ret.q = "QInVec"
    /\ Cardinality(Binds_(trace)) = 4
    /\ \A i \in Binds_(trace) : trace[i].len = 1
    /\ trace[Len(trace)].value = Tagged("Int", <<4>>)


\* C33: a call of push_bound_value that succeeds leaves the collector's list
\* one entry longer, the entries it had unchanged and in their places and
\* the new entry, a value with its SQL type tag, last; a call whose
\* serializer fails returns a SerializationError and leaves the list as it
\* was.
C33_AppendsOne ==
    [][(collector'.call.op = "push_bound_value" /\ ~collector'.bound) =>
          LET old == collector.binds
              new == collector'.binds
              call == collector'.call
          IN  /\ call.out \in {"Ok", "SerializationError"}
              /\ call.out = "Ok" =>
                    /\ Len(new) = Len(old) + 1
                    /\ SubSeq(new, 1, Len(old)) = old
                    /\ new[Len(new)].value =
                          IF call.is_null = "No" THEN call.written ELSE Null
                    /\ new[Len(new)].metadata \in SqliteTypes
              /\ call.out = "SerializationError" => new = old]_vars

C33_Witness ==
    /\ collector.call.op = "push_bound_value"
    /\ collector.call.out = "SerializationError"
    /\ ~collector.bound
    /\ Len(collector.binds) = 1
    /\ collector.binds[1].value = F64(15)


\* C34: the wire value to_ffi_struct makes of a bind value is of the variant
\* of the same class and has the same payload: Text for borrowed and for
\* owned text, Blob for borrowed and for owned binary, Int for I32, Int64 for
\* I64, Double for F64, Null for Null, and of no other variant.
C34_WireVariant ==
    collector.bound =>
       \A k \in Events :
          LET src == collector.binds[k].value
              wire == trace[k].value
          IN  /\ wire.tag \in {"Text", "Blob", "Int", "Int64", "Double", "Null"}
              /\ wire.tag = "Text" <=> src.tag \in {"BorrowedString", "String"}
              /\ wire.tag = "Blob" <=> src.tag \in {"BorrowedBinary", "Binary"}
              /\ wire.tag = "Int" <=> src.tag = "I32"
              /\ wire.tag = "Int64" <=> src.tag = "I64"
              /\ wire.tag = "Double" <=> src.tag = "F64"
              /\ wire.tag = "Null" <=> src.tag = "Null"
              /\ wire.v = src.v

C34_Witness ==
    /\ collector.bound
    /\ Len(trace) = 2
    /\ collector.binds[1].value = BorrowedString(<<104>>)
    /\ collector.binds[2].value = I64(<<1, 0>>)
    /\ trace[1].value = Tagged("Text", <<104>>)
    /\ trace[2].value = Tagged("Int64", <<1, 0>>)


\* C35: batch_execute makes one execute call and, when that fails, the
\* last_error call that reports the failure, and no other host call: no
\* query_prepare, bind_value, sqlite3_step, reset or sqlite3_finalize.  The
\* statement cache and every statement of the host are after the call what
\* they were before it, whether it succeeded or failed.
C35_BatchExecuteFrame ==
    [][ret'.op = "batch_execute" =>
          /\ \A i \in 1..Len(trace') :
                trace'[i].op \in {"execute", "last_error", "unroll_vec"}
          /\ Calls(trace', "execute") = 1
          /\ trace'[1].op = "execute"
          /\ Calls(trace', "last_error") = IF ret'.res = "Err" THEN 1 ELSE 0
          /\ ret'.res = "Err" <=> trace'[1].out # 0
          /\ conn'.statement_cache = conn.statement_cache
          /\ host'.stmts = host.stmts]_vars

C35_Witness ==
    /\ ret.op = "batch_execute"
    /\ ret.res = "Err"
    /\ Calls(trace, "last_error") = 1
    /\ StatementCacheLen = 2
    /\ \A id \in Stmts : host.stmts[id].state = "Prepared"


\* C36: reading a stored 32-bit integer never fails.  Read as an i16 it gives
\* the value of the i16 range that is congruent to the stored one modulo
\* 2^16, so that a stored value out of the range wraps; read as a bool it
\* gives true for every stored value but 0 and false for 0; read as an i32
\* it gives the stored value.
C36_NarrowingRead ==
    (field.by = "from_sql" /\ row.inner_row[1].tag = "Int") =>
       LET stored == row.inner_row[1].v[1]
           got == field.got[1]
       IN  /\ got.ok
           /\ Len(got.v) = 1
           /\ field.name = "i16" =>
                 /\ got.v[1] \in -32768..32767
                 /\ got.v[1] % 65536 = stored % 65536
           /\ field.name = "bool" =>
                 /\ got.v[1] \in {0, 1}
                 /\ got.v[1] = 1 <=> stored # 0
           /\ field.name = "i32" => got.v[1] = stored

C36_Witness ==
    /\ field.by = "from_sql"
    /\ field.name = "i16"
    /\ row.inner_row[1] = Tagged("Int", <<98304>>)
    /\ field.got[1].ok
    /\ field.got[1].v = <<-32768>>


\* C37: a cursor is made with is_first true; the first call of next on it
\* steps the statement with first = true, every later call with first =
\* false, and after any call of next, whether it gave a row, the end or an
\* error, is_first is false and stays false for the life of the cursor.
C37_FirstOnlyOnce ==
    [][/\ (ret'.op = "load" /\ ret'.res = "Ok") => cursor'[1].is_first
       /\ ret'.op = "next" =>
             /\ Calls(trace', "sqlite3_step") = 1
             /\ ret'.first <=> ret.op = "load"
             /\ ~cursor'[1].is_first
       /\ (cursor # <<>> /\ cursor' # <<>> /\ ~cursor[1].is_first) =>
             ~cursor'[1].is_first]_vars

C37_Witness ==
    /\ ret.op = "next"
    /\ ret.res = "Some(Err)"
    /\ ret.first
    /\ ~cursor[1].is_first
    /\ StepFailed

====
